---- MODULE Spec2Model ----
(***************************************************************************)
(* Model of the report layout and classification engine of the slide-deck  *)
(* generator (src/__main__.py): the paginator                              *)
(* calculate_projects_per_slide, the column allocator                      *)
(* calculate_column_widths and the status classifiers get_status_color and *)
(* get_quality_status_color.                                               *)
(*                                                                         *)
(* Python values are modelled as follows.                                  *)
(*   - a str is a sequence of one-character strings, wrapped as            *)
(*     [tag |-> "str", s |-> <<...>>]; None is [tag |-> "None", s |-> <<>>]*)
(*   - an RGBColor(r, g, b) is the tuple <<r, g, b>>                       *)
(*   - a float width is a whole number of scaled units, and a quotient of  *)
(*     widths is the exact rational <<numerator, denominator>>             *)
(*   - the outcome of a call is [exc |-> "none", val |-> v] when it        *)
(*     returns v and [exc |-> "ZeroDivisionError", val |-> <<>>] when it   *)
(*     raises.                                                             *)
(***************************************************************************)
EXTENDS Integers, Sequences, FiniteSets, TLC

VARIABLES fn, args, result, pc, prs, step, posted

vars == <<fn, args, result, pc, prs, step, posted>>

(***************************************************************************)
(* Bounds of the model.                                                    *)
(***************************************************************************)
\* largest total_projects tried
MaxTotal == 32
\* totals tried below zero: -NegTotal .. -1
NegTotal == 2
\* min_per_slide and max_per_slide are tried over 1 .. MaxPerSlide
MaxPerSlide == 7
\* num_projects of calculate_column_widths is tried over 0 .. MaxCols
MaxCols == 6
\* widths are tried over 0 .. MaxWidth (scaled units)
MaxWidth == 12
\* status values are padded with 0 .. MaxPad spaces
MaxPad == 1

(***************************************************************************)
(* Program constants.                                                      *)
(***************************************************************************)
\* default of min_per_slide
DefaultMin == 3
\* default of max_per_slide
DefaultMax == 5

Returned(v) == [exc |-> "none", val |-> v]
Raised(e) == [exc |-> e, val |-> <<>>]
NoResult == [exc |-> "pending", val |-> <<>>]

(***************************************************************************)
(* calculate_projects_per_slide                                            *)
(***************************************************************************)
RECURSIVE SumSeq(_)
SumSeq(q) == IF q = <<>> THEN 0 ELSE Head(q) + SumSeq(Tail(q))

\* the loop "for i in range(num_slides)": i counts from 0
RECURSIVE DistributionLoop(_, _, _, _, _)
DistributionLoop(i, num_slides, base_count, remainder, distribution) ==
    IF i >= num_slides
    THEN distribution
    ELSE DistributionLoop(i + 1, num_slides, base_count, remainder,
                          Append(distribution,
                                 IF i < remainder THEN base_count + 1
                                                  ELSE base_count))

\* mutant: the branch takes one slide less, as its comment announces
Recomputed_fewer_slides(total_projects, min_per_slide, max_per_slide, first) ==
    IF first.base_count < min_per_slide
    THEN LET num_slides == first.num_slides - 1
         IN  [num_slides |-> num_slides,
              base_count |-> total_projects \div num_slides,
              remainder  |-> total_projects % num_slides]
    ELSE first

\* the "base_count < min_per_slide" branch: it recomputes the three values
\* from the same formula
Recomputed(total_projects, min_per_slide, max_per_slide, first) ==
    IF first.base_count < min_per_slide
    THEN LET num_slides == (total_projects + max_per_slide - 1) \div max_per_slide
         IN  [num_slides |-> num_slides,
              base_count |-> total_projects \div num_slides,
              remainder  |-> total_projects % num_slides]
    ELSE first

\* mutant: the number of slides is rounded down instead of up
calculate_projects_per_slide_floor(total_projects, min_per_slide, max_per_slide) ==
    IF total_projects = 0 THEN <<>>
    ELSE IF total_projects <= max_per_slide THEN <<total_projects>>
    ELSE LET num_slides == total_projects \div max_per_slide
         IN  DistributionLoop(0, num_slides, total_projects \div num_slides,
                              total_projects % num_slides, <<>>)

\* mutant: the remainder is dropped, every slide gets base_count
calculate_projects_per_slide_norem(total_projects, min_per_slide, max_per_slide) ==
    IF total_projects = 0 THEN <<>>
    ELSE IF total_projects <= max_per_slide THEN <<total_projects>>
    ELSE LET num_slides == (total_projects + max_per_slide - 1) \div max_per_slide
         IN  DistributionLoop(0, num_slides, total_projects \div num_slides,
                              0, <<>>)

\* mutant: the extra projects go to the last slides instead of the first
calculate_projects_per_slide_late(total_projects, min_per_slide, max_per_slide) ==
    IF total_projects = 0 THEN <<>>
    ELSE IF total_projects <= max_per_slide THEN <<total_projects>>
    ELSE LET num_slides == (total_projects + max_per_slide - 1) \div max_per_slide
             d == DistributionLoop(0, num_slides, total_projects \div num_slides,
                                   total_projects % num_slides, <<>>)
         IN  [i \in 1..Len(d) |-> d[Len(d) + 1 - i]]

calculate_projects_per_slide(total_projects, min_per_slide, max_per_slide) ==
    IF total_projects = 0 THEN <<>>
    ELSE IF total_projects <= max_per_slide THEN <<total_projects>>
    ELSE LET num_slides == (total_projects + max_per_slide - 1) \div max_per_slide
             first == [num_slides |-> num_slides,
                       base_count |-> total_projects \div num_slides,
                       remainder  |-> total_projects % num_slides]
             v == Recomputed(total_projects, min_per_slide, max_per_slide, first)
         IN  DistributionLoop(0, v.num_slides, v.base_count, v.remainder, <<>>)

(***************************************************************************)
(* calculate_column_widths                                                 *)
(***************************************************************************)
\* mutant: the fixed column is not subtracted from the total width
calculate_column_widths_total(num_projects, total_width, fixed_col_width) ==
    IF num_projects = 0
    THEN Raised("ZeroDivisionError")
    ELSE Returned([fixed |-> fixed_col_width,
                   project |-> <<total_width, num_projects>>])

\* mutant: zero project columns are given the whole remaining width
calculate_column_widths_guarded(num_projects, total_width, fixed_col_width) ==
    LET remaining_width == total_width - fixed_col_width
    IN  IF num_projects = 0
        THEN Returned([fixed |-> fixed_col_width,
                       project |-> <<remaining_width, 1>>])
        ELSE Returned([fixed |-> fixed_col_width,
                       project |-> <<remaining_width, num_projects>>])

calculate_column_widths(num_projects, total_width, fixed_col_width) ==
    LET remaining_width == total_width - fixed_col_width
    IN  IF num_projects = 0
        THEN Raised("ZeroDivisionError")
        ELSE Returned([fixed |-> fixed_col_width,
                       project |-> <<remaining_width, num_projects>>])

(***************************************************************************)
(* Python str operations on sequences of characters.                       *)
(***************************************************************************)
PyNone == [tag |-> "None", s |-> <<>>]
Str(s) == [tag |-> "str", s |-> s]

\* "not status": None and the empty str are falsy
Falsy(status) == status.tag = "None" \/ status.s = <<>>

UpperChars == <<"A", "B", "C", "D", "E", "F", "G", "H", "I", "J", "K", "L", "M", "N", "O", "P", "Q", "R", "S", "T", "U", "V", "W", "X", "Y", "Z">>
LowerChars == <<"a", "b", "c", "d", "e", "f", "g", "h", "i", "j", "k", "l", "m", "n", "o", "p", "q", "r", "s", "t", "u", "v", "w", "x", "y", "z">>
Whitespace == {" ", "\t", "\n"}

ToLowerChar(c) ==
    IF \E i \in 1..Len(UpperChars) : UpperChars[i] = c
    THEN LowerChars[CHOOSE i \in 1..Len(UpperChars) : UpperChars[i] = c]
    ELSE c

ToUpperChar(c) ==
    IF \E i \in 1..Len(LowerChars) : LowerChars[i] = c
    THEN UpperChars[CHOOSE i \in 1..Len(LowerChars) : LowerChars[i] = c]
    ELSE c

\* str.lower()
lower(s) == [i \in 1..Len(s) |-> ToLowerChar(s[i])]

\* str.upper()
upper(s) == [i \in 1..Len(s) |-> ToUpperChar(s[i])]

\* str.strip(): leading and trailing whitespace removed
RECURSIVE lstrip(_)
lstrip(s) == IF s # <<>> /\ Head(s) \in Whitespace THEN lstrip(Tail(s)) ELSE s

RECURSIVE rstrip(_)
rstrip(s) ==
    IF s # <<>> /\ s[Len(s)] \in Whitespace
    THEN rstrip(SubSeq(s, 1, Len(s) - 1))
    ELSE s

strip(s) == rstrip(lstrip(s))

\* "sub in s"
In(sub, s) ==
    \E i \in 0..(Len(s) - Len(sub)) : SubSeq(s, i + 1, i + Len(sub)) = sub

(***************************************************************************)
(* get_status_color: the traffic-light classifier                          *)
(***************************************************************************)
kw_green == <<"g", "r", "e", "e", "n">>
kw_yes == <<"y", "e", "s">>
kw_amber == <<"a", "m", "b", "e", "r">>
kw_yellow == <<"y", "e", "l", "l", "o", "w">>
kw_red == <<"r", "e", "d">>
kw_no == <<"n", "o">>

GRAY_EMPTY == <<192, 192, 192>>
STATUS_GREEN == <<146, 208, 80>>
STATUS_AMBER == <<255, 192, 0>>
STATUS_RED == <<255, 0, 0>>
LIGHT_GRAY == <<217, 217, 217>>

\* mutant: the status is not lower-cased before the keyword search
get_status_color_cased(status) ==
    IF Falsy(status) THEN GRAY_EMPTY
    ELSE LET status_lower == status.s
         IN  IF In(kw_green, status_lower) \/ In(kw_yes, status_lower)
             THEN STATUS_GREEN
             ELSE IF In(kw_amber, status_lower) \/ In(kw_yellow, status_lower)
             THEN STATUS_AMBER
             ELSE IF In(kw_red, status_lower) \/ In(kw_no, status_lower)
             THEN STATUS_RED
             ELSE LIGHT_GRAY

get_status_color(status) ==
    IF Falsy(status) THEN GRAY_EMPTY
    ELSE LET status_lower == lower(status.s)
         IN  IF In(kw_green, status_lower) \/ In(kw_yes, status_lower)
             THEN STATUS_GREEN
             ELSE IF In(kw_amber, status_lower) \/ In(kw_yellow, status_lower)
             THEN STATUS_AMBER
             ELSE IF In(kw_red, status_lower) \/ In(kw_no, status_lower)
             THEN STATUS_RED
             ELSE LIGHT_GRAY

(***************************************************************************)
(* get_quality_status_color: the completion classifier                     *)
(***************************************************************************)
TOK_YES == <<"Y", "E", "S">>
TOK_Y == <<"Y">>
TOK_COMPLETE == <<"C", "O", "M", "P", "L", "E", "T", "E">>
TOK_COMPLETED == <<"C", "O", "M", "P", "L", "E", "T", "E", "D">>
TOK_DONE == <<"D", "O", "N", "E">>
TOK_UP_TO_DATE == <<"U", "P", " ", "T", "O", " ", "D", "A", "T", "E">>
TOK_PARTIAL == <<"P", "A", "R", "T", "I", "A", "L">>
TOK_PENDING == <<"P", "E", "N", "D", "I", "N", "G">>
TOK_IN_PROGRESS == <<"I", "N", " ", "P", "R", "O", "G", "R", "E", "S", "S">>
TOK_SCHEDULED == <<"S", "C", "H", "E", "D", "U", "L", "E", "D">>
TOK_ONGOING == <<"O", "N", "G", "O", "I", "N", "G">>
TOK_N_A == <<"N", "/", "A">>
TOK_NA == <<"N", "A">>
TOK_NOT_APPLICABLE == <<"N", "O", "T", " ", "A", "P", "P", "L", "I", "C", "A", "B", "L", "E">>
TOK_NO == <<"N", "O">>
TOK_NONE == <<"N", "O", "N", "E">>
kw_not_applicable == <<"n", "o", "t", " ", "a", "p", "p", "l", "i", "c", "a", "b", "l", "e">>
kw_n_a == <<"n", "/", "a">>
kw_pending == <<"p", "e", "n", "d", "i", "n", "g">>
kw_partial == <<"p", "a", "r", "t", "i", "a", "l">>
kw_missing == <<"m", "i", "s", "s", "i", "n", "g">>
kw_complete == <<"c", "o", "m", "p", "l", "e", "t", "e">>
kw_available == <<"a", "v", "a", "i", "l", "a", "b", "l", "e">>

POSITIVE_TOKENS ==
    {TOK_YES, TOK_Y, TOK_COMPLETE, TOK_COMPLETED, TOK_DONE, TOK_UP_TO_DATE}
WARNING_TOKENS ==
    {TOK_PARTIAL, TOK_PENDING, TOK_IN_PROGRESS, TOK_SCHEDULED, TOK_ONGOING}
NA_TOKENS ==
    {TOK_N_A, TOK_NA, TOK_NOT_APPLICABLE, TOK_NO, TOK_NONE}

QUALITY_GRAY == <<128, 128, 128>>
QUALITY_GREEN == <<0, 176, 80>>
QUALITY_ORANGE == <<255, 192, 0>>

\* mutant: the keyword search tests positive, then warning, then not-applicable
QualityKeywordColor_positive_first(status_lower) ==
    IF In(kw_yes, status_lower) \/ In(kw_complete, status_lower)
       \/ In(kw_available, status_lower)
    THEN QUALITY_GREEN
    ELSE IF In(kw_pending, status_lower) \/ In(kw_partial, status_lower)
            \/ In(kw_missing, status_lower)
    THEN QUALITY_ORANGE
    ELSE QUALITY_GRAY

\* the keyword search "in longer text", on status.lower()
QualityKeywordColor(status_lower) ==
    IF In(kw_not_applicable, status_lower) \/ In(kw_n_a, status_lower)
    THEN QUALITY_GRAY
    ELSE IF In(kw_pending, status_lower) \/ In(kw_partial, status_lower)
            \/ In(kw_missing, status_lower)
    THEN QUALITY_ORANGE
    ELSE IF In(kw_yes, status_lower) \/ In(kw_complete, status_lower)
            \/ In(kw_available, status_lower)
    THEN QUALITY_GREEN
    ELSE QUALITY_GRAY

\* mutant: the status is not stripped before the exact token match
get_quality_status_color_nostrip(status) ==
    IF Falsy(status) THEN QUALITY_GRAY
    ELSE LET status_str == upper(status.s)
         IN  IF status_str \in POSITIVE_TOKENS THEN QUALITY_GREEN
             ELSE IF status_str \in WARNING_TOKENS THEN QUALITY_ORANGE
             ELSE IF status_str \in NA_TOKENS THEN QUALITY_GRAY
             ELSE QualityKeywordColor(lower(status.s))

get_quality_status_color(status) ==
    IF Falsy(status) THEN QUALITY_GRAY
    ELSE LET status_str == upper(strip(status.s))
         IN  IF status_str \in POSITIVE_TOKENS THEN QUALITY_GREEN
             ELSE IF status_str \in WARNING_TOKENS THEN QUALITY_ORANGE
             ELSE IF status_str \in NA_TOKENS THEN QUALITY_GRAY
             ELSE QualityKeywordColor(lower(status.s))

(***************************************************************************)
(* Status values tried: every sample word in four letter cases, padded     *)
(* with up to MaxPad spaces on either side or followed by free text.       *)
(***************************************************************************)
SampleWords ==
    { <<>>,
      <<"g", "r", "e", "e", "n">>,
      <<"y", "e", "s">>,
      <<"a", "m", "b", "e", "r">>,
      <<"y", "e", "l", "l", "o", "w">>,
      <<"r", "e", "d">>,
      <<"n", "o">>,
      <<"n", "o", "n", "e">>,
      <<"u", "n", "k", "n", "o", "w", "n">>,
      <<"n", "o", "t", " ", "a", "p", "p", "l", "i", "c", "a", "b", "l", "e">>,
      <<"n", "/", "a">>,
      <<"n", "a">>,
      <<"p", "a", "r", "t", "i", "a", "l">>,
      <<"p", "e", "n", "d", "i", "n", "g">>,
      <<"i", "n", " ", "p", "r", "o", "g", "r", "e", "s", "s">>,
      <<"s", "c", "h", "e", "d", "u", "l", "e", "d">>,
      <<"o", "n", "g", "o", "i", "n", "g">>,
      <<"y">>,
      <<"c", "o", "m", "p", "l", "e", "t", "e">>,
      <<"c", "o", "m", "p", "l", "e", "t", "e", "d">>,
      <<"d", "o", "n", "e">>,
      <<"u", "p", " ", "t", "o", " ", "d", "a", "t", "e">>,
      <<"m", "i", "s", "s", "i", "n", "g">>,
      <<"a", "v", "a", "i", "l", "a", "b", "l", "e">>,
      <<"o", "n", " ", "t", "r", "a", "c", "k">> }

sfx_minor_delay == <<",", " ", "m", "i", "n", "o", "r", " ", "d", "e", "l", "a", "y">>

Capitalized(s) == [i \in 1..Len(s) |-> IF i = 1 THEN ToUpperChar(s[i]) ELSE s[i]]
Alternating(s) == [i \in 1..Len(s) |-> IF i % 2 = 0 THEN ToUpperChar(s[i]) ELSE s[i]]
CaseVariants(s) == {s, upper(s), Capitalized(s), Alternating(s)}

Spaces(n) == [i \in 1..n |-> " "]
Prefixes == {Spaces(n) : n \in 0..MaxPad}
Suffixes == {Spaces(n) : n \in 0..MaxPad} \cup {sfx_minor_delay}

\* values holding two keywords of the completion classifier, in either order
ComboWords ==
    {kw_yes, kw_complete, kw_available, kw_pending, kw_partial, kw_missing,
     kw_not_applicable, kw_n_a}
ComboValues ==
    UNION {{a \o <<",", " ">> \o b, upper(a \o <<",", " ">> \o b)} :
             a \in ComboWords, b \in ComboWords}

StatusValues ==
    {PyNone} \cup
    {Str(p \o v \o x) : p \in Prefixes, x \in Suffixes,
                        v \in UNION {CaseVariants(w) : w \in SampleWords}} \cup
    {Str(v) : v \in ComboValues}

(***************************************************************************)
(* get_feedback_color: the feedback classifier                             *)
(***************************************************************************)
lv_high == <<"h", "i", "g", "h">>
lv_positive == <<"p", "o", "s", "i", "t", "i", "v", "e">>
lv_good == <<"g", "o", "o", "d">>
lv_low == <<"l", "o", "w">>
lv_negative == <<"n", "e", "g", "a", "t", "i", "v", "e">>
lv_poor == <<"p", "o", "o", "r">>
lv_medium == <<"m", "e", "d", "i", "u", "m">>
lv_neutral == <<"n", "e", "u", "t", "r", "a", "l">>
fb_happy == <<"h", "a", "p", "p", "y">>
fb_appreciated == <<"a", "p", "p", "r", "e", "c", "i", "a", "t", "e", "d">>
fb_successful == <<"s", "u", "c", "c", "e", "s", "s", "f", "u", "l">>
fb_good == <<"g", "o", "o", "d">>
fb_excellent == <<"e", "x", "c", "e", "l", "l", "e", "n", "t">>
fb_satisfied == <<"s", "a", "t", "i", "s", "f", "i", "e", "d">>
fb_unhappy == <<"u", "n", "h", "a", "p", "p", "y">>
fb_issue == <<"i", "s", "s", "u", "e">>
fb_problem == <<"p", "r", "o", "b", "l", "e", "m">>
fb_concern == <<"c", "o", "n", "c", "e", "r", "n">>
fb_disappointed == <<"d", "i", "s", "a", "p", "p", "o", "i", "n", "t", "e", "d">>
lit_N_A == <<"N", "/", "A">>

FEEDBACK_GREEN == <<146, 208, 80>>
FEEDBACK_LIGHT_RED == <<255, 192, 203>>
FEEDBACK_LIGHT_YELLOW == <<255, 255, 153>>
FEEDBACK_GRAY == <<217, 217, 217>>

\* the positive_keywords and negative_keywords lists, in list order
positive_keywords ==
    <<fb_happy, fb_appreciated, fb_successful, fb_good, fb_excellent, fb_satisfied>>
negative_keywords ==
    <<fb_unhappy, fb_issue, fb_problem, fb_concern, fb_disappointed>>

\* any(keyword in text for keyword in keywords)
AnyIn(keywords, text) == \E i \in 1..Len(keywords) : In(keywords[i], text)

\* the "if feedback_text and feedback_text != 'N/A'" block and the default
FeedbackTextColor(feedback_text) ==
    IF ~Falsy(feedback_text) /\ feedback_text.s # lit_N_A
    THEN LET feedback_lower == lower(feedback_text.s)
         IN  IF AnyIn(positive_keywords, feedback_lower) THEN FEEDBACK_LIGHT_YELLOW
             ELSE IF AnyIn(negative_keywords, feedback_lower) THEN FEEDBACK_LIGHT_RED
             ELSE FEEDBACK_GRAY
    ELSE FEEDBACK_GRAY

\* mutant: the feedback text is scanned before the satisfaction level
get_feedback_color_text_first(satisfaction_level, feedback_text) ==
    IF FeedbackTextColor(feedback_text) # FEEDBACK_GRAY
    THEN FeedbackTextColor(feedback_text)
    ELSE IF Falsy(satisfaction_level) THEN FEEDBACK_GRAY
    ELSE LET sat_lower == lower(satisfaction_level.s)
         IN  IF In(lv_high, sat_lower) \/ In(lv_positive, sat_lower)
                \/ In(lv_good, sat_lower)
             THEN FEEDBACK_GREEN
             ELSE IF In(lv_low, sat_lower) \/ In(lv_negative, sat_lower)
                     \/ In(lv_poor, sat_lower)
             THEN FEEDBACK_LIGHT_RED
             ELSE IF In(lv_medium, sat_lower) \/ In(lv_neutral, sat_lower)
             THEN FEEDBACK_LIGHT_YELLOW
             ELSE FEEDBACK_GRAY

get_feedback_color(satisfaction_level, feedback_text) ==
    IF Falsy(satisfaction_level) THEN FeedbackTextColor(feedback_text)
    ELSE LET sat_lower == lower(satisfaction_level.s)
         IN  IF In(lv_high, sat_lower) \/ In(lv_positive, sat_lower)
                \/ In(lv_good, sat_lower)
             THEN FEEDBACK_GREEN
             ELSE IF In(lv_low, sat_lower) \/ In(lv_negative, sat_lower)
                     \/ In(lv_poor, sat_lower)
             THEN FEEDBACK_LIGHT_RED
             ELSE IF In(lv_medium, sat_lower) \/ In(lv_neutral, sat_lower)
             THEN FEEDBACK_LIGHT_YELLOW
             ELSE FeedbackTextColor(feedback_text)

\* satisfaction levels and feedback texts tried
SatisfactionValues ==
    {PyNone, Str(<<>>),
     Str(<<"H", "i", "g", "h">>),
     Str(<<"L", "O", "W">>),
     Str(<<"M", "e", "d", "i", "u", "m">>),
     Str(<<"N", "e", "u", "t", "r", "a", "l">>),
     Str(<<"p", "o", "s", "i", "t", "i", "v", "e">>),
     Str(<<"N", "e", "g", "a", "t", "i", "v", "e">>),
     Str(<<"G", "o", "o", "d">>),
     Str(<<"p", "o", "o", "r">>),
     Str(<<"A", "v", "e", "r", "a", "g", "e">>),
     Str(<<"N", "/", "A">>),
     Str(<<"S", "a", "t", "i", "s", "f", "i", "e", "d">>),
     Str(<<" ">>)}

FeedbackValues ==
    {PyNone, Str(<<>>),
     Str(<<"N", "/", "A">>),
     Str(<<"n", "/", "a">>),
     Str(<<"C", "l", "i", "e", "n", "t", " ", "i", "s", " ", "h", "a", "p", "p", "y">>),
     Str(<<"T", "e", "a", "m", " ", "a", "p", "p", "r", "e", "c", "i", "a", "t", "e", "d">>),
     Str(<<"s", "u", "c", "c", "e", "s", "s", "f", "u", "l", " ", "r", "e", "l", "e", "a", "s", "e">>),
     Str(<<"g", "o", "o", "d">>),
     Str(<<"E", "x", "c", "e", "l", "l", "e", "n", "t">>),
     Str(<<"s", "a", "t", "i", "s", "f", "i", "e", "d">>),
     Str(<<"C", "l", "i", "e", "n", "t", " ", "i", "s", " ", "u", "n", "h", "a", "p", "p", "y">>),
     Str(<<"o", "p", "e", "n", " ", "i", "s", "s", "u", "e">>),
     Str(<<"P", "r", "o", "b", "l", "e", "m">>),
     Str(<<"s", "o", "m", "e", " ", "c", "o", "n", "c", "e", "r", "n">>),
     Str(<<"d", "i", "s", "a", "p", "p", "o", "i", "n", "t", "e", "d">>),
     Str(<<"n", "o", " ", "c", "o", "m", "m", "e", "n", "t", "s">>),
     Str(<<"h", "a", "p", "p", "y", ",", " ", "o", "n", "e", " ", "c", "o", "n", "c", "e", "r", "n">>)}

FeedbackArgs == [sat : SatisfactionValues, text : FeedbackValues]

(***************************************************************************)
(* Table cells.  A project record is a function from its keys to values;   *)
(* a painted cell is [exc, text, bg, font]: the displayed text, the        *)
(* background colour and the font colour (<<>> where the code sets none).  *)
(***************************************************************************)
lit_None == <<"N", "o", "n", "e">>
lit_none == <<"n", "o", "n", "e">>
lit_NA == <<"N", "A">>
lit_Project == <<"P", "r", "o", "j", "e", "c", "t", " ">>
lit_No == <<"N", "o">>
lit_Yes == <<"Y", "e", "s">>
lit_Partial == <<"P", "a", "r", "t", "i", "a", "l">>
lit_bullet == <<"●">>
lit_concourse_updated == <<"C", "o", "n", "c", "o", "u", "r", "s", "e", " ", "a", "v", "a", "i", "l", "a", "b", "l", "e", "\n", "R", "i", "s", "k", "s", ",", " ", "d", "o", "c", "u", "m", "e", "n", "t", "s", "\n", "a", "r", "e", " ", "u", "p", "d", "a", "t", "e", "d">>
lit_concourse_needs_update == <<"C", "o", "n", "c", "o", "u", "r", "s", "e", " ", "a", "v", "a", "i", "l", "a", "b", "l", "e", "\n", "N", "e", "e", "d", "s", " ", "t", "o", " ", "b", "e", "\n", "u", "p", "d", "a", "t", "e", "d">>
TOK_GREEN == <<"G", "R", "E", "E", "N">>
TOK_RED == <<"R", "E", "D">>
kw_scheduled == <<"s", "c", "h", "e", "d", "u", "l", "e", "d">>
kw_yet == <<"y", "e", "t">>
Digits == <<"0", "1", "2", "3", "4", "5", "6", "7", "8", "9">>

NoColor == <<>>
HEADER_SILVER == <<191, 191, 191>>
HEADER_GRAY == <<128, 128, 128>>
CELL_GRAY == <<192, 192, 192>>
CELL_LIGHT_GRAY == <<217, 217, 217>>
CELL_DEFAULT_GRAY == <<200, 200, 200>>
CELL_GREEN == <<146, 208, 80>>
CELL_LIGHT_RED == <<255, 192, 203>>
CELL_LIGHT_YELLOW == <<255, 255, 153>>
CELL_ORANGE == <<255, 192, 0>>
CELL_TAN == <<222, 184, 135>>
GLYPH_GREEN == <<0, 176, 80>>
GLYPH_AMBER == <<255, 192, 0>>
GLYPH_RED == <<255, 0, 0>>
GLYPH_GRAY == <<128, 128, 128>>

\* project.get(key, default)
Get(project, key, default) ==
    IF key \in DOMAIN project THEN project[key] ELSE default

\* str(value)
PyStr(value) == IF value.tag = "None" THEN lit_None ELSE value.s

\* add_cell_with_color: cell.text = str(text) if text else "N/A"
Display(text) == IF Falsy(text) THEN lit_N_A ELSE PyStr(text)

Cell(text, bg) == [exc |-> "none", text |-> text, bg |-> bg, font |-> NoColor]
GlyphCell(text, bg, font) == [exc |-> "none", text |-> text, bg |-> bg, font |-> font]
CellRaised(e) == [exc |-> e, text |-> <<>>, bg |-> NoColor, font |-> NoColor]

\* f'Project {proj_idx + 1}'
ProjectNumber(proj_idx) == Str(lit_Project \o <<Digits[proj_idx + 2]>>)

\* a cell that copies one field, on the pages with one row per project
text_cell(project, key, bg) ==
    Cell(Display(Get(project, key, Str(lit_N_A))), bg)

\* a project-name header cell, on the pages with one column per project
header_cell(project, proj_idx) ==
    Cell(Display(Get(project, "Project Name", ProjectNumber(proj_idx))), HEADER_GRAY)

(* Project Health *)
\* mutant: a missing status field defaults to 'None'
health_status_cell_default_none(project, field_name) ==
    LET status == Get(project, field_name, Str(lit_None))
    IN  Cell(Display(status), get_status_color(status))

health_status_cell(project, field_name) ==
    LET status == Get(project, field_name, Str(lit_N_A))
    IN  Cell(Display(status), get_status_color(status))

health_upsell_cell(project) ==
    LET upsell_opp == Get(project, "Up-sell / Cross-sell Opportunities", Str(lit_None))
        upsell_details == Get(project, "Up-sell / Cross-sell Details", Str(<<>>))
    IN  IF Falsy(upsell_details) THEN Cell(Display(upsell_opp), NoColor)
        ELSE IF upsell_opp.tag = "None" THEN CellRaised("AttributeError")
        ELSE IF lower(upsell_opp.s) \notin {lit_none, kw_n_a}
        THEN Cell(Display(Str(upsell_opp.s \o <<"\n">> \o PyStr(upsell_details))),
                  NoColor)
        ELSE Cell(Display(upsell_opp), NoColor)

(* Ticket Quality and Quality Checks *)
\* mutant: the header default counts the projects from zero
ticket_header_cell_zero_based(project, proj_idx) ==
    Cell(Display(Get(project, "Project Name",
                     Str(lit_Project \o <<Digits[proj_idx + 1]>>))), HEADER_GRAY)

ticket_header_cell(project, proj_idx) == header_cell(project, proj_idx)

ticket_value_color(value) ==
    IF ~Falsy(value) /\ upper(strip(PyStr(value))) \in {TOK_YES, TOK_GREEN}
    THEN CELL_GREEN
    ELSE IF ~Falsy(value) /\ upper(strip(PyStr(value))) \in {TOK_NO, TOK_RED}
    THEN CELL_LIGHT_RED
    ELSE IF ~Falsy(value) /\ upper(strip(PyStr(value))) \in {TOK_N_A, TOK_NOT_APPLICABLE}
    THEN CELL_LIGHT_GRAY
    ELSE CELL_DEFAULT_GRAY

ticket_value_cell(project, param_key) ==
    LET value == Get(project, param_key, Str(lit_N_A))
    IN  Cell(Display(value), ticket_value_color(value))

enhancement_header_cell(project, proj_idx) == header_cell(project, proj_idx)

enhancement_value_color(value) ==
    IF ~Falsy(value) /\ upper(strip(PyStr(value))) \in {TOK_YES, TOK_GREEN}
    THEN CELL_GREEN
    ELSE IF ~Falsy(value) /\ upper(strip(PyStr(value))) \in {TOK_NO, TOK_RED}
    THEN CELL_LIGHT_RED
    ELSE IF ~Falsy(value) /\ upper(strip(PyStr(value))) \in {TOK_N_A, TOK_NOT_APPLICABLE}
    THEN CELL_LIGHT_GRAY
    ELSE CELL_DEFAULT_GRAY

enhancement_value_cell(project, param_key) ==
    LET value == Get(project, param_key, Str(lit_N_A))
    IN  Cell(Display(value), enhancement_value_color(value))

(* Feedback Summary *)
feedback_cell(project, feedback_key, satisfaction_key) ==
    LET feedback == Get(project, feedback_key, Str(lit_N_A))
        satisfaction == Get(project, satisfaction_key, Str(<<>>))
    IN  Cell(Display(feedback), get_feedback_color(satisfaction, feedback))

feedback_upsell_cell(project) ==
    LET upsell_opp == Get(project, "Up-sell / Cross-sell Opportunities1", Str(lit_None))
        upsell_active == Get(project,
                             "Are there any active Up-Sell/Cross-Sell opportunities?",
                             Str(lit_No))
        upsell_bg == IF ~Falsy(upsell_active)
                        /\ upper(strip(PyStr(upsell_active))) \in {TOK_YES, TOK_Y}
                     THEN CELL_LIGHT_YELLOW
                     ELSE CELL_LIGHT_GRAY
    IN  Cell(Display(upsell_opp), upsell_bg)

(* Salesforce Quality *)
sf_status_cell(project, key) ==
    LET status == Get(project, key, Str(lit_N_A))
    IN  Cell(Display(status), get_quality_status_color(status))

\* "details and details.strip() and details.strip().upper() != 'N/A'"
HasDetails(details) ==
    ~Falsy(details) /\ strip(details.s) # <<>> /\ upper(strip(details.s)) # TOK_N_A

\* mutant: any non-empty details replace the status word
sf_details_cell_any(project, status_key, details_key) ==
    LET status == Get(project, status_key, Str(lit_N_A))
        details == Get(project, details_key, Str(<<>>))
    IN  IF ~Falsy(details)
        THEN Cell(Display(details), CELL_ORANGE)
        ELSE Cell(Display(status), get_quality_status_color(status))

\* the NexGen and RCA cells: the details replace the status word
sf_details_cell(project, status_key, details_key) ==
    LET status == Get(project, status_key, Str(lit_N_A))
        details == Get(project, details_key, Str(<<>>))
    IN  IF HasDetails(details)
        THEN Cell(Display(details), CELL_ORANGE)
        ELSE Cell(Display(status), get_quality_status_color(status))

sf_nexgen_cell(project, status_key, details_key) ==
    sf_details_cell(project, status_key, details_key)

sf_rca_cell(project, status_key, details_key) ==
    sf_details_cell(project, status_key, details_key)

sf_sme_cell(project, status_key, details_key) ==
    LET sme_status == Get(project, status_key, Str(lit_N_A))
        sme_details == Get(project, details_key, Str(<<>>))
    IN  IF HasDetails(sme_details)
        THEN LET d == lower(sme_details.s)
             IN  Cell(Display(sme_details),
                      IF In(kw_scheduled, d) \/ In(kw_yet, d) THEN CELL_ORANGE
                      ELSE IF In(kw_not_applicable, d) \/ In(kw_n_a, d)
                      THEN QUALITY_GRAY
                      ELSE get_quality_status_color(sme_status))
        ELSE Cell(Display(sme_status), get_quality_status_color(sme_status))

sf_concourse_cell(project, used_key, updated_key) ==
    LET concourse_used == Get(project, used_key, Str(lit_N_A))
        concourse_updated == Get(project, updated_key, Str(lit_N_A))
    IN  IF upper(strip(PyStr(concourse_used))) = TOK_YES
           /\ upper(strip(PyStr(concourse_updated))) = TOK_YES
        THEN Cell(lit_concourse_updated, QUALITY_GREEN)
        ELSE IF upper(strip(PyStr(concourse_used))) = TOK_YES
        THEN Cell(lit_concourse_needs_update, QUALITY_ORANGE)
        ELSE Cell(Display(concourse_used), get_quality_status_color(concourse_used))

\* mutant: one YES is enough for 'Yes'
sf_combined_cell_either(project, capacity_key, vacation_key) ==
    LET capacity_status == Get(project, capacity_key, Str(lit_N_A))
        vacation_status == Get(project, vacation_key, Str(lit_N_A))
    IN  IF upper(strip(PyStr(capacity_status))) = TOK_YES
           \/ upper(strip(PyStr(vacation_status))) = TOK_YES
        THEN Cell(lit_Yes, QUALITY_GREEN)
        ELSE Cell(lit_N_A, QUALITY_GRAY)

sf_combined_cell(project, capacity_key, vacation_key) ==
    LET capacity_status == Get(project, capacity_key, Str(lit_N_A))
        vacation_status == Get(project, vacation_key, Str(lit_N_A))
    IN  IF upper(strip(PyStr(capacity_status))) = TOK_YES
           /\ upper(strip(PyStr(vacation_status))) = TOK_YES
        THEN Cell(lit_Yes, QUALITY_GREEN)
        ELSE IF upper(strip(PyStr(capacity_status))) = TOK_YES
                \/ upper(strip(PyStr(vacation_status))) = TOK_YES
        THEN Cell(lit_Partial, QUALITY_ORANGE)
        ELSE Cell(lit_N_A, QUALITY_GRAY)

(* Delivery Review *)
delivery_header_cell(project, proj_idx) == header_cell(project, proj_idx)

\* every branch of get_status_indicator returns the same dot
get_status_indicator(status) == lit_bullet

\* the colour given to the dot: str methods are called on the status itself
delivery_indicator_cell(project, data_key) ==
    LET status == Get(project, data_key, Str(lit_N_A))
    IN  IF status.tag = "None" THEN CellRaised("AttributeError")
        ELSE LET font ==
                   IF In(kw_green, lower(status.s)) \/ upper(strip(status.s)) = TOK_YES
                   THEN GLYPH_GREEN
                   ELSE IF In(kw_amber, lower(status.s)) \/ In(kw_yellow, lower(status.s))
                   THEN GLYPH_AMBER
                   ELSE IF In(kw_red, lower(status.s)) THEN GLYPH_RED
                   ELSE GLYPH_GRAY
             IN  GlyphCell(get_status_indicator(status), CELL_LIGHT_GRAY, font)

delivery_reason_cell(project, reason_key) ==
    LET reason == Get(project, reason_key, Str(lit_NA))
    IN  IF ~Falsy(reason) /\ strip(reason.s) # <<>> /\ upper(strip(reason.s)) # TOK_NA
        THEN Cell(Display(reason), CELL_TAN)
        ELSE Cell(lit_NA, CELL_LIGHT_GRAY)

(***************************************************************************)
(* The cells of the six pages: which cell reads which keys.  idx is the    *)
(* position of the project on its page (proj_idx), bg the fixed background *)
(* of a plain text cell.                                                   *)
(***************************************************************************)
\* positions of a project on a page: 0 .. max_per_slide - 1
MaxProjectsOnSlide == 5

HeaderSites ==
    {[page |-> p, kind |-> "header", key |-> "Project Name", aux |-> "",
      idx |-> i, bg |-> HEADER_GRAY] :
        p \in {"Ticket Quality", "Quality Checks", "Delivery Review"},
        i \in 0..(MaxProjectsOnSlide - 1)}

FieldSites ==
    { [page |-> "Project Health", kind |-> "text", key |-> "Project Name", aux |-> "", idx |-> 0, bg |-> NoColor],
      [page |-> "Project Health", kind |-> "text", key |-> "PMD Name", aux |-> "", idx |-> 0, bg |-> NoColor],
      [page |-> "Project Health", kind |-> "health_status", key |-> "Overall Status", aux |-> "", idx |-> 0, bg |-> NoColor],
      [page |-> "Project Health", kind |-> "health_status", key |-> "Staffing Status", aux |-> "", idx |-> 0, bg |-> NoColor],
      [page |-> "Project Health", kind |-> "health_status", key |-> "Scope Status", aux |-> "", idx |-> 0, bg |-> NoColor],
      [page |-> "Project Health", kind |-> "health_status", key |-> "Project Governance Status", aux |-> "", idx |-> 0, bg |-> NoColor],
      [page |-> "Project Health", kind |-> "health_status", key |-> "Escalation Management Status1", aux |-> "", idx |-> 0, bg |-> NoColor],
      [page |-> "Project Health", kind |-> "text", key |-> "Reason for Amber / Red", aux |-> "", idx |-> 0, bg |-> NoColor],
      [page |-> "Project Health", kind |-> "text", key |-> "Total FTEs", aux |-> "", idx |-> 0, bg |-> NoColor],
      [page |-> "Project Health", kind |-> "text", key |-> "Project Highlights", aux |-> "", idx |-> 0, bg |-> NoColor],
      [page |-> "Project Health", kind |-> "health_upsell", key |-> "Up-sell / Cross-sell Opportunities", aux |-> "Up-sell / Cross-sell Details", idx |-> 0, bg |-> NoColor],
      [page |-> "Ticket Quality", kind |-> "ticket_value", key |-> "Tool", aux |-> "", idx |-> 0, bg |-> NoColor],
      [page |-> "Ticket Quality", kind |-> "ticket_value", key |-> "Description", aux |-> "", idx |-> 0, bg |-> NoColor],
      [page |-> "Ticket Quality", kind |-> "ticket_value", key |-> "Steps to Reproduce", aux |-> "", idx |-> 0, bg |-> NoColor],
      [page |-> "Ticket Quality", kind |-> "ticket_value", key |-> "Module", aux |-> "", idx |-> 0, bg |-> NoColor],
      [page |-> "Ticket Quality", kind |-> "ticket_value", key |-> "Priority", aux |-> "", idx |-> 0, bg |-> NoColor],
      [page |-> "Ticket Quality", kind |-> "ticket_value", key |-> "Owner", aux |-> "", idx |-> 0, bg |-> NoColor],
      [page |-> "Ticket Quality", kind |-> "ticket_value", key |-> "SLA", aux |-> "", idx |-> 0, bg |-> NoColor],
      [page |-> "Ticket Quality", kind |-> "ticket_value", key |-> "RCA", aux |-> "", idx |-> 0, bg |-> NoColor],
      [page |-> "Ticket Quality", kind |-> "ticket_value", key |-> "Ticket Status", aux |-> "", idx |-> 0, bg |-> NoColor],
      [page |-> "Ticket Quality", kind |-> "ticket_value", key |-> "Comments (Team Follow-up)", aux |-> "", idx |-> 0, bg |-> NoColor],
      [page |-> "Ticket Quality", kind |-> "ticket_value", key |-> "Closing Comments", aux |-> "", idx |-> 0, bg |-> NoColor],
      [page |-> "Ticket Quality", kind |-> "ticket_value", key |-> "QA Test Results", aux |-> "", idx |-> 0, bg |-> NoColor],
      [page |-> "Ticket Quality", kind |-> "ticket_value", key |-> "Tracking Changes", aux |-> "", idx |-> 0, bg |-> NoColor],
      [page |-> "Quality Checks", kind |-> "enhancement_value", key |-> "Review Process", aux |-> "", idx |-> 0, bg |-> NoColor],
      [page |-> "Quality Checks", kind |-> "enhancement_value", key |-> "Tool1", aux |-> "", idx |-> 0, bg |-> NoColor],
      [page |-> "Quality Checks", kind |-> "enhancement_value", key |-> "Story Point", aux |-> "", idx |-> 0, bg |-> NoColor],
      [page |-> "Quality Checks", kind |-> "enhancement_value", key |-> "Acceptance Criteria", aux |-> "", idx |-> 0, bg |-> NoColor],
      [page |-> "Quality Checks", kind |-> "enhancement_value", key |-> "Story / Defect Description", aux |-> "", idx |-> 0, bg |-> NoColor],
      [page |-> "Quality Checks", kind |-> "enhancement_value", key |-> "Module1", aux |-> "", idx |-> 0, bg |-> NoColor],
      [page |-> "Quality Checks", kind |-> "enhancement_value", key |-> "Priority1", aux |-> "", idx |-> 0, bg |-> NoColor],
      [page |-> "Quality Checks", kind |-> "enhancement_value", key |-> "Owner1", aux |-> "", idx |-> 0, bg |-> NoColor],
      [page |-> "Quality Checks", kind |-> "enhancement_value", key |-> "Sprint Tag", aux |-> "", idx |-> 0, bg |-> NoColor],
      [page |-> "Quality Checks", kind |-> "enhancement_value", key |-> "Ticket Status1", aux |-> "", idx |-> 0, bg |-> NoColor],
      [page |-> "Quality Checks", kind |-> "enhancement_value", key |-> "Comments / Team Follow-up", aux |-> "", idx |-> 0, bg |-> NoColor],
      [page |-> "Quality Checks", kind |-> "enhancement_value", key |-> "QA Test Results1", aux |-> "", idx |-> 0, bg |-> NoColor],
      [page |-> "Quality Checks", kind |-> "enhancement_value", key |-> "Technical Changes", aux |-> "", idx |-> 0, bg |-> NoColor],
      [page |-> "Quality Checks", kind |-> "enhancement_value", key |-> "RCA (Root Cause Analysis)", aux |-> "", idx |-> 0, bg |-> NoColor],
      [page |-> "Feedback Summary", kind |-> "text", key |-> "Project Name", aux |-> "", idx |-> 0, bg |-> CELL_GRAY],
      [page |-> "Feedback Summary", kind |-> "text", key |-> "PMD Name", aux |-> "", idx |-> 0, bg |-> CELL_LIGHT_GRAY],
      [page |-> "Feedback Summary", kind |-> "text", key |-> "US Lead Name", aux |-> "", idx |-> 0, bg |-> CELL_LIGHT_GRAY],
      [page |-> "Feedback Summary", kind |-> "text", key |-> "AC Lead Name", aux |-> "", idx |-> 0, bg |-> CELL_LIGHT_GRAY],
      [page |-> "Feedback Summary", kind |-> "text", key |-> "Offshore Team Feedback", aux |-> "", idx |-> 0, bg |-> CELL_LIGHT_GRAY],
      [page |-> "Feedback Summary", kind |-> "feedback", key |-> "Onshore Team Feedback", aux |-> "Overall Onshore Satisfaction", idx |-> 0, bg |-> NoColor],
      [page |-> "Feedback Summary", kind |-> "feedback", key |-> "Client Feedback", aux |-> "Overall Client Satisfaction", idx |-> 0, bg |-> NoColor],
      [page |-> "Feedback Summary", kind |-> "feedback_upsell", key |-> "Up-sell / Cross-sell Opportunities1", aux |-> "Are there any active Up-Sell/Cross-Sell opportunities?", idx |-> 0, bg |-> NoColor],
      [page |-> "Salesforce Quality", kind |-> "text", key |-> "Project Name", aux |-> "", idx |-> 0, bg |-> CELL_GRAY],
      [page |-> "Salesforce Quality", kind |-> "text", key |-> "PMD Name", aux |-> "", idx |-> 0, bg |-> CELL_LIGHT_GRAY],
      [page |-> "Salesforce Quality", kind |-> "text", key |-> "US Lead Name", aux |-> "", idx |-> 0, bg |-> CELL_LIGHT_GRAY],
      [page |-> "Salesforce Quality", kind |-> "text", key |-> "AC Lead Name", aux |-> "", idx |-> 0, bg |-> CELL_LIGHT_GRAY],
      [page |-> "Salesforce Quality", kind |-> "sf_status", key |-> "Are DEH tool updates completed and up to date?", aux |-> "", idx |-> 0, bg |-> NoColor],
      [page |-> "Salesforce Quality", kind |-> "sf_status", key |-> "Are Peer Reviews conducted regularly?", aux |-> "", idx |-> 0, bg |-> NoColor],
      [page |-> "Salesforce Quality", kind |-> "sf_status", key |-> "Are Ticket Audits performed regularly?", aux |-> "", idx |-> 0, bg |-> NoColor],
      [page |-> "Salesforce Quality", kind |-> "sf_nexgen", key |-> "Are NexGen Portal updates completed for the project?", aux |-> "If NexGen updates are partial or pending, please provide details_x002e_", idx |-> 0, bg |-> NoColor],
      [page |-> "Salesforce Quality", kind |-> "sf_sme", key |-> "Are SME Reviews conducted for the project?", aux |-> "If SME reviews are scheduled or not applicable, please provide details_x002e_", idx |-> 0, bg |-> NoColor],
      [page |-> "Salesforce Quality", kind |-> "sf_concourse", key |-> "Is Concourse being used for RAID logs and documentation?", aux |-> "Are risks, issues, and documents regularly updated in Concourse?", idx |-> 0, bg |-> NoColor],
      [page |-> "Salesforce Quality", kind |-> "sf_rca", key |-> "Is RCA documentation available and up to date (for defects/issues)?", aux |-> "If RCA documentation is missing or pending, please explain_x002e_", idx |-> 0, bg |-> NoColor],
      [page |-> "Salesforce Quality", kind |-> "sf_combined", key |-> "Is capacity planning completed and reviewed?", aux |-> "Is vacation tracking and shift roster maintained for the team?", idx |-> 0, bg |-> NoColor],
      [page |-> "Delivery Review", kind |-> "delivery_indicator", key |-> "Operational / Governance", aux |-> "", idx |-> 0, bg |-> NoColor],
      [page |-> "Delivery Review", kind |-> "delivery_indicator", key |-> "Quality", aux |-> "", idx |-> 0, bg |-> NoColor],
      [page |-> "Delivery Review", kind |-> "delivery_indicator", key |-> "Environment Health", aux |-> "", idx |-> 0, bg |-> NoColor],
      [page |-> "Delivery Review", kind |-> "delivery_indicator", key |-> "Risks / Escalations", aux |-> "", idx |-> 0, bg |-> NoColor],
      [page |-> "Delivery Review", kind |-> "delivery_reason", key |-> "If Amber or Red is selected for any question, please provide the reason_x002e_", aux |-> "", idx |-> 0, bg |-> NoColor] }

CellSites == HeaderSites \cup FieldSites

\* field values tried
CellValues ==
    {PyNone,
     Str(<<>>),
     Str(<<" ">>),
     Str(<<"N", "/", "A">>),
     Str(<<"N", "A">>),
     Str(<<"N", "o", "n", "e">>),
     Str(<<"Y", "e", "s">>),
     Str(<<" ", "y", "e", "s", " ">>),
     Str(<<"N", "o">>),
     Str(<<"G", "r", "e", "e", "n">>),
     Str(<<"A", "m", "b", "e", "r">>),
     Str(<<"R", "e", "d">>),
     Str(<<"N", "o", "t", " ", "A", "p", "p", "l", "i", "c", "a", "b", "l", "e">>),
     Str(<<"P", "a", "r", "t", "i", "a", "l">>),
     Str(<<"H", "i", "g", "h">>),
     Str(<<"R", "e", "v", "i", "e", "w", " ", "i", "s", " ", "s", "c", "h", "e", "d", "u", "l", "e", "d">>),
     Str(<<"C", "l", "i", "e", "n", "t", " ", "i", "s", " ", "u", "n", "h", "a", "p", "p", "y">>)}

SiteKeys(site) == {site.key, site.aux} \ {""}

\* the records tried for a cell: every choice of present keys and values
SiteRecords(site) == UNION {[d -> CellValues] : d \in SUBSET SiteKeys(site)}

CellArgs == UNION {{[site |-> s, project |-> r] : r \in SiteRecords(s)} : s \in CellSites}

\* the cell a page builder paints for one project
RenderCell(site, project) ==
    CASE site.kind = "text" -> text_cell(project, site.key, site.bg)
      [] site.kind = "header" /\ site.page = "Ticket Quality"
            -> ticket_header_cell(project, site.idx)
      [] site.kind = "header" /\ site.page = "Quality Checks"
            -> enhancement_header_cell(project, site.idx)
      [] site.kind = "header" /\ site.page = "Delivery Review"
            -> delivery_header_cell(project, site.idx)
      [] site.kind = "health_status" -> health_status_cell(project, site.key)
      [] site.kind = "health_upsell" -> health_upsell_cell(project)
      [] site.kind = "ticket_value" -> ticket_value_cell(project, site.key)
      [] site.kind = "enhancement_value" -> enhancement_value_cell(project, site.key)
      [] site.kind = "feedback" -> feedback_cell(project, site.key, site.aux)
      [] site.kind = "feedback_upsell" -> feedback_upsell_cell(project)
      [] site.kind = "sf_status" -> sf_status_cell(project, site.key)
      [] site.kind = "sf_nexgen" -> sf_nexgen_cell(project, site.key, site.aux)
      [] site.kind = "sf_sme" -> sf_sme_cell(project, site.key, site.aux)
      [] site.kind = "sf_concourse" -> sf_concourse_cell(project, site.key, site.aux)
      [] site.kind = "sf_rca" -> sf_rca_cell(project, site.key, site.aux)
      [] site.kind = "sf_combined" -> sf_combined_cell(project, site.key, site.aux)
      [] site.kind = "delivery_indicator" -> delivery_indicator_cell(project, site.key)
      [] site.kind = "delivery_reason" -> delivery_reason_cell(project, site.key)

(***************************************************************************)
(* The deck.  prs is the presentation under construction, a sequence of    *)
(* slides; a slide is [kind, title, projects, rows, cols, cells]: its      *)
(* projects_on_slide, the size of its table and, on Project Health, the    *)
(* painted status cells of its data rows.                                  *)
(***************************************************************************)
\* longest projects_data tried
MaxRecords == 12

Min(a, b) == IF a < b THEN a ELSE b

\* seq[lo:hi], for 0 <= lo <= hi
Slice(seq, lo, hi) == SubSeq(seq, lo + 1, Min(hi, Len(seq)))

RECURSIVE GroupLoop(_, _, _)
\* "for projects_count in distribution": the slices taken at project_index
GroupLoop(projects_data, distribution, project_index) ==
    IF distribution = <<>> THEN <<>>
    ELSE LET projects_count == Head(distribution)
             projects_on_slide ==
                 Slice(projects_data, project_index, project_index + projects_count)
         IN  <<projects_on_slide>>
             \o GroupLoop(projects_data, Tail(distribution),
                          project_index + projects_count)

\* mutant: project_index is never advanced
SlideGroups_restart(projects_data) ==
    LET distribution ==
            calculate_projects_per_slide(Len(projects_data), DefaultMin, DefaultMax)
    IN  [i \in 1..Len(distribution) |-> Slice(projects_data, 0, distribution[i])]

\* mutant: the loop runs once more, over an empty slice
SlideGroups_trailing_empty(projects_data) ==
    GroupLoop(projects_data,
              calculate_projects_per_slide(Len(projects_data), DefaultMin, DefaultMax),
              0) \o <<<<>>>>

\* the projects_on_slide of every slide of one builder
SlideGroups(projects_data) ==
    GroupLoop(projects_data,
              calculate_projects_per_slide(Len(projects_data), DefaultMin, DefaultMax),
              0)

status_fields ==
    <<"Overall Status", "Staffing Status", "Scope Status",
      "Project Governance Status", "Escalation Management Status1">>

StatusFieldNames == {status_fields[i] : i \in 1..Len(status_fields)}

\* a list item that is a dict; the other items tried are of type str
IsMapping(project) == "tag" \notin DOMAIN project

\* painting the cells of one project on a page raises: project.get on an
\* item that is no dict, or a str method on a null value
ProjectRaises(page, project) ==
    \/ ~IsMapping(project)
    \/ \E site \in CellSites :
          site.page = page /\ RenderCell(site, project).exc # "none"

\* painting the table of a slide raises
SlideRaises(page, projects_on_slide) ==
    \E i \in 1..Len(projects_on_slide) : ProjectRaises(page, projects_on_slide[i])

\* the data rows of a Project Health table that get their status cells,
\* raises[i] telling whether row i raises: all of them, or those up to the
\* project whose up-sell cell raises, or those before the item that is no
\* dict
PaintedRows(projects_on_slide, raises) ==
    IF \E i \in DOMAIN raises : raises[i]
    THEN LET r == CHOOSE r \in DOMAIN raises :
                      raises[r] /\ \A q \in 1..(r - 1) : ~raises[q]
         IN  IF IsMapping(projects_on_slide[r]) THEN r ELSE r - 1
    ELSE Len(projects_on_slide)

Slide(kind, title, projects_on_slide, rows, cols, cells) ==
    [kind |-> kind, title |-> title, projects |-> projects_on_slide,
     rows |-> rows, cols |-> cols, cells |-> cells]

\* mutant: the table has one row more than header + projects
slide_1_project_health_extra_row(projects_on_slide) ==
    Slide("content", "Project Health Status", projects_on_slide,
          2 + Len(projects_on_slide), 12,
          [row \in 1..PaintedRows(projects_on_slide,
                                  [i \in 1..Len(projects_on_slide) |->
                                      ProjectRaises("Project Health",
                                                    projects_on_slide[i])]) |->
              [field_name \in StatusFieldNames |->
                  health_status_cell(projects_on_slide[row], field_name)]])

slide_1_project_health(projects_on_slide) ==
    Slide("content", "Project Health Status", projects_on_slide,
          1 + Len(projects_on_slide), 12,
          [row \in 1..PaintedRows(projects_on_slide,
                                  [i \in 1..Len(projects_on_slide) |->
                                      ProjectRaises("Project Health",
                                                    projects_on_slide[i])]) |->
              [field_name \in StatusFieldNames |->
                  health_status_cell(projects_on_slide[row], field_name)]])

\* mutant: the table has one row more than header + 13 parameters
slide_2_ticket_quality_extra_row(projects_on_slide) ==
    Slide("content", "Ticket Quality Checks (Incidents)", projects_on_slide,
          15, 2 + Len(projects_on_slide), <<>>)

slide_2_ticket_quality(projects_on_slide) ==
    Slide("content", "Ticket Quality Checks (Incidents)", projects_on_slide,
          14, 2 + Len(projects_on_slide), <<>>)

slide_3_enhancements(projects_on_slide) ==
    Slide("content", "Quality Checks (Enhancements/Bugs)", projects_on_slide,
          15, 2 + Len(projects_on_slide), <<>>)

slide_4_feedback_summary(projects_on_slide) ==
    Slide("content", "Feedback Summary", projects_on_slide,
          1 + Len(projects_on_slide), 8, <<>>)

slide_5_salesforce_quality(projects_on_slide) ==
    Slide("content", "Salesforce Project Quality", projects_on_slide,
          1 + Len(projects_on_slide), 12, <<>>)

slide_6_delivery_review(projects_on_slide) ==
    Slide("content", "Delivery Review Summary", projects_on_slide,
          6, 1 + Len(projects_on_slide), <<>>)

\* the slide a builder adds for one group
ContentSlide(page, projects_on_slide) ==
    CASE page = "Project Health" -> slide_1_project_health(projects_on_slide)
      [] page = "Ticket Quality" -> slide_2_ticket_quality(projects_on_slide)
      [] page = "Quality Checks" -> slide_3_enhancements(projects_on_slide)
      [] page = "Feedback Summary" -> slide_4_feedback_summary(projects_on_slide)
      [] page = "Salesforce Quality" -> slide_5_salesforce_quality(projects_on_slide)
      [] page = "Delivery Review" -> slide_6_delivery_review(projects_on_slide)

\* the builder's call of calculate_column_widths, in hundredths of an inch;
\* three pages have project columns, the others set fixed widths
column_widths(page, projects_on_slide) ==
    CASE page \in {"Ticket Quality", "Quality Checks"}
            -> calculate_column_widths(Len(projects_on_slide), 1233, 500)
      [] page = "Delivery Review"
            -> calculate_column_widths(Len(projects_on_slide), 1233, 250)
      [] OTHER -> Returned(<<>>)

\* one pass of a builder's loop: the group gets its slide, then the column
\* widths are computed and its table is painted; an exception ends the loop
\* with the slide already added, otherwise the rest of the groups follows
BuildSlide(slide, widths, raises, rest) ==
    IF widths.exc # "none" THEN [slides |-> <<slide>>, exc |-> widths.exc]
    ELSE IF raises THEN [slides |-> <<slide>>, exc |-> "AttributeError"]
    ELSE [slides |-> <<slide>> \o rest.slides, exc |-> rest.exc]

RECURSIVE BuildSlides(_, _)
\* a builder's loop over the groups
BuildSlides(page, groups) ==
    IF groups = <<>> THEN [slides |-> <<>>, exc |-> "none"]
    ELSE BuildSlide(ContentSlide(page, Head(groups)),
                    column_widths(page, Head(groups)),
                    SlideRaises(page, Head(groups)),
                    BuildSlides(page, Tail(groups)))

create_slide_1_project_health(projects_data) ==
    BuildSlides("Project Health", SlideGroups(projects_data))
create_slide_2_ticket_quality(projects_data) ==
    BuildSlides("Ticket Quality", SlideGroups(projects_data))
create_slide_3_enhancements(projects_data) ==
    BuildSlides("Quality Checks", SlideGroups(projects_data))
create_slide_4_feedback_summary(projects_data) ==
    BuildSlides("Feedback Summary", SlideGroups(projects_data))
create_slide_5_salesforce_quality(projects_data) ==
    BuildSlides("Salesforce Quality", SlideGroups(projects_data))
create_slide_6_delivery_review(projects_data) ==
    BuildSlides("Delivery Review", SlideGroups(projects_data))

create_cover_slide(slides) ==
    Append(slides, Slide("cover", "", <<>>, 0, 0, <<>>))

\* mutant: the divider adds no slide
create_section_divider_skipped(slides, section_title) == slides

create_section_divider(slides, section_title) ==
    Append(slides, Slide("divider", section_title, <<>>, 0, 0, <<>>))

\* the section titles passed to create_section_divider, in call order
section_titles ==
    <<"Delivery Review Summary", "Project Health Status",
      "Salesforce Project Quality", "Ticket Quality Checks - Incidents",
      "Quality Checks - Enhancements/Bugs", "Feedback Summary">>

\* the project records tried
Alpha ==
    ("Project Name" :> Str(<<"A", "l", "p", "h", "a">>))
    @@ ("Overall Status" :> Str(<<"G", "r", "e", "e", "n">>))
Beta ==
    ("Project Name" :> Str(<<"B", "e", "t", "a">>))
    @@ ("Overall Status" :> Str(<<"R", "e", "d">>))
Gamma ==
    ("Project Name" :> Str(<<"G", "a", "m", "m", "a">>))
    @@ ("Overall Status" :> Str(<<"a", "m", "b", "e", "r", " ">>))
    @@ ("Quality" :> Str(<<"Y", "e", "s">>))
Unnamed == [k \in {} |-> PyNone]
\* a null Delivery Review status: status.lower() raises
NullStatus ==
    ("Project Name" :> Str(<<"D", "e", "l", "t", "a">>))
    @@ ("Overall Status" :> Str(<<"G", "r", "e", "e", "n">>))
    @@ ("Quality" :> PyNone)
\* a null up-sell opportunity with details: upsell_opp.lower() raises
NullUpsell ==
    ("Project Name" :> Str(<<"Z", "e", "t", "a">>))
    @@ ("Overall Status" :> Str(<<"R", "e", "d">>))
    @@ ("Up-sell / Cross-sell Opportunities" :> PyNone)
    @@ ("Up-sell / Cross-sell Details" :> Str(<<"x">>))

RecordPool == <<Alpha, Beta, Gamma, Unnamed>>
NullRecords == {NullStatus, NullUpsell}

\* n records, the pool repeated from its k-th record on
Rotation(n, k) == [i \in 1..n |-> RecordPool[((i - 1 + k) % Len(RecordPool)) + 1]]

\* the lists tried: the rotations, and those with one record replaced by a
\* record that holds a null
ProjectLists ==
    LET plain == {Rotation(n, k) : n \in 0..MaxRecords, k \in 0..(Len(RecordPool) - 1)}
    IN  plain \cup
        UNION {{[l EXCEPT ![p] = r] : p \in 1..Len(l), r \in NullRecords} : l \in plain}

(***************************************************************************)
(* The table of one content page: the (row, column) of every cell the     *)
(* builder writes and the columns whose width it sets, for n projects on   *)
(* the slide.  Rows and columns count from 0.                              *)
(***************************************************************************)
\* a page with one row per project: a header row, then per project the
\* columns 0 .. last_col
row_per_project_writes(n, last_col) ==
    {<<0, col>> : col \in 0..last_col}
    \cup {<<proj_idx + 1, col>> : proj_idx \in 0..(n - 1), col \in 0..last_col}

\* a page with one column per project, after fixed_cols fixed columns:
\* row 0 and the rows 1 .. last_row, the fixed columns and a column per
\* project in each
column_per_project_writes(n, fixed_cols, last_row) ==
    {<<row, col>> : row \in 0..last_row, col \in 0..(fixed_cols - 1)}
    \cup {<<row, fixed_cols + proj_idx>> : row \in 0..last_row, proj_idx \in 0..(n - 1)}

table_writes(page, n) ==
    CASE page = "Project Health" -> row_per_project_writes(n, 11)
      [] page = "Ticket Quality" -> column_per_project_writes(n, 2, 13)
      [] page = "Quality Checks" -> column_per_project_writes(n, 2, 14)
      [] page = "Feedback Summary" -> row_per_project_writes(n, 7)
      [] page = "Salesforce Quality" -> row_per_project_writes(n, 11)
      [] page = "Delivery Review" -> column_per_project_writes(n, 1, 5)

\* table.columns[i].width = ...
column_width_writes(page, cols) ==
    CASE page = "Project Health" -> 0..11
      [] page \in {"Ticket Quality", "Quality Checks"} -> {0, 1} \cup 2..(cols - 1)
      [] page = "Feedback Summary" -> 0..7
      [] page = "Salesforce Quality" -> 0..11
      [] page = "Delivery Review" -> {0} \cup 1..(cols - 1)

Pages ==
    {"Project Health", "Ticket Quality", "Quality Checks", "Feedback Summary",
     "Salesforce Quality", "Delivery Review"}

\* the groups tried: 1 .. max_per_slide projects
TableArgs ==
    [page : Pages,
     projects_on_slide : {Rotation(n, k) : n \in 1..MaxProjectsOnSlide, k \in 0..1}]

\* what a builder does to the table of one slide
build_table(page, projects_on_slide) ==
    LET slide == ContentSlide(page, projects_on_slide)
    IN  [exc |-> "none", rows |-> slide.rows, cols |-> slide.cols,
         writes |-> table_writes(page, Len(projects_on_slide)),
         widths |-> column_width_writes(page, slide.cols)]

(***************************************************************************)
(* main.  A Python value handed to main is [tag, items]: a list with its  *)
(* items, a dict (items holds the one record), or a number; a str input    *)
(* is given by what json.loads and ast.literal_eval make of it.            *)
(***************************************************************************)
\* longest record list handed to main
MaxMainRecords == 6

PyList(items) == [tag |-> "list", items |-> items]
PyDict(project) == [tag |-> "dict", items |-> <<project>>]
PyInt == [tag |-> "int", items |-> <<>>]
ParseError(e) == [tag |-> "error", items |-> <<>>, exc |-> e]
Text(json, literal) == [tag |-> "str", items |-> <<>>, json |-> json, literal |-> literal]

\* a list item of type str
NotAMapping == Str(<<"o", "o", "p", "s">>)

\* json.loads first, ast.literal_eval when it fails; a single dict becomes
\* a list of one
parse_incoming_data(incoming_data) ==
    LET parsed ==
            IF incoming_data.tag = "str"
            THEN IF incoming_data.json.tag # "error"
                 THEN Returned(incoming_data.json)
                 ELSE IF incoming_data.literal.tag # "error"
                 THEN Returned(incoming_data.literal)
                 ELSE Raised(incoming_data.literal.exc)
            ELSE Returned(incoming_data)
    IN  IF parsed.exc = "none" /\ parsed.val.tag = "dict"
        THEN Returned(PyList(parsed.val.items))
        ELSE parsed

\* the first statements of main: parse, then
\* "if not isinstance(incoming_data, list): raise ValueError"
main_parse(incoming_data) ==
    LET parsed == parse_incoming_data(incoming_data)
    IN  IF parsed.exc # "none" THEN parsed
        ELSE IF parsed.val.tag # "list" THEN Raised("ValueError")
        ELSE parsed

\* the preview loop "for index, project in enumerate(incoming_data[:2])"
\* calls project.get
main_preview(data) ==
    IF \E i \in 1..Min(2, Len(data)) : ~IsMapping(data[i])
    THEN Raised("AttributeError")
    ELSE Returned(<<>>)

\* the exceptions of main's first handler
ParsingErrors == {"JSONDecodeError", "ValueError", "SyntaxError"}

\* mutant: the generic handler reports a partial success
main_except_partial(e) ==
    [status |-> IF e \in ParsingErrors THEN "Error" ELSE "Partial Success",
     message |-> IF e \in ParsingErrors THEN "Parsing failed" ELSE "Processing failed"]

\* main's two outer handlers
main_except(e) ==
    [status |-> "Error",
     message |-> IF e \in ParsingErrors THEN "Parsing failed" ELSE "Processing failed"]

\* mutant: the request is repeated once when it fails
main_deliver_retry(sent, deck, outcome) ==
    IF outcome = "ok"
    THEN Append(sent, [fileContent |-> deck, response |-> outcome])
    ELSE Append(Append(sent, [fileContent |-> deck, response |-> outcome]),
                [fileContent |-> deck, response |-> outcome])

\* requests.post(POWER_AUTOMATE_ENDPOINT, json=payload, ...): one request,
\* kept with what became of it
main_deliver(sent, deck, outcome) ==
    Append(sent, [fileContent |-> deck, response |-> outcome])

\* the lists handed to main: up to MaxMainRecords records, and those with
\* one item replaced by a record holding a null or by an item of type str
MainLists ==
    LET plain == {Rotation(n, 0) : n \in 0..MaxMainRecords}
    IN  plain \cup
        UNION {{[l EXCEPT ![p] = r] : p \in 1..Len(l),
                                      r \in NullRecords \cup {NotAMapping}} : l \in plain}

\* the inputs of main
MainArgs ==
    {PyList(l) : l \in MainLists}
    \cup {PyDict(Alpha), PyDict(NullStatus), PyInt}
    \cup {Text(PyList(l), ParseError("ValueError")) :
             l \in {<<>>, <<Alpha, Beta>>, <<Alpha, Beta, Gamma, NotAMapping>>}}
    \cup {Text(PyDict(Beta), ParseError("ValueError")),
          Text(PyInt, ParseError("ValueError")),
          Text(ParseError("JSONDecodeError"), PyList(<<Alpha, Beta, Gamma>>)),
          Text(ParseError("JSONDecodeError"), PyInt)}
    \cup {Text(ParseError("JSONDecodeError"), ParseError(e)) :
             e \in {"ValueError", "SyntaxError", "RecursionError"}}

\* the record list main works on once parsing has succeeded
incoming_data == main_parse(args).val.items

\* create_complete_presentation is running, called directly or by main
Assembling ==
    \/ fn = "create_complete_presentation" /\ pc = "called"
    \/ fn = "main" /\ pc = "assembling"

\* its argument
deck_projects == IF fn = "main" THEN incoming_data ELSE args.projects_data

(***************************************************************************)
(* The state machine: a call is drawn by Init and applied by one action.   *)
(***************************************************************************)
PaginateArgs ==
    [total : (0 - NegTotal)..MaxTotal, min : 1..MaxPerSlide, max : 1..MaxPerSlide]

WidthArgs ==
    [k : 0..MaxCols, w : 0..MaxWidth, f : 0..MaxWidth]

Init ==
    /\ pc = "called"
    /\ result = NoResult
    /\ prs = <<>>
    /\ step = 0
    /\ posted = <<>>
    /\ \/ fn = "calculate_projects_per_slide" /\ args \in PaginateArgs
       \/ fn = "calculate_column_widths" /\ args \in WidthArgs
       \/ fn = "get_status_color" /\ args \in StatusValues
       \/ fn = "get_quality_status_color" /\ args \in StatusValues
       \/ fn = "get_feedback_color" /\ args \in FeedbackArgs
       \/ fn = "cell" /\ args \in CellArgs
       \/ fn = "create_complete_presentation" /\ args \in [projects_data : ProjectLists]
       \/ fn = "table" /\ args \in TableArgs
       \/ fn = "main" /\ args \in MainArgs

CallPaginate ==
    /\ pc = "called"
    /\ fn = "calculate_projects_per_slide"
    /\ result' = Returned(calculate_projects_per_slide(args.total, args.min, args.max))
    /\ pc' = "returned"
    /\ UNCHANGED <<fn, args, prs, step, posted>>

CallColumnWidths ==
    /\ pc = "called"
    /\ fn = "calculate_column_widths"
    /\ result' = calculate_column_widths(args.k, args.w, args.f)
    /\ pc' = "returned"
    /\ UNCHANGED <<fn, args, prs, step, posted>>

CallStatusColor ==
    /\ pc = "called"
    /\ fn = "get_status_color"
    /\ result' = Returned(get_status_color(args))
    /\ pc' = "returned"
    /\ UNCHANGED <<fn, args, prs, step, posted>>

CallQualityStatusColor ==
    /\ pc = "called"
    /\ fn = "get_quality_status_color"
    /\ result' = Returned(get_quality_status_color(args))
    /\ pc' = "returned"
    /\ UNCHANGED <<fn, args, prs, step, posted>>

CallFeedbackColor ==
    /\ pc = "called"
    /\ fn = "get_feedback_color"
    /\ result' = Returned(get_feedback_color(args.sat, args.text))
    /\ pc' = "returned"
    /\ UNCHANGED <<fn, args, prs, step, posted>>

\* a page builder paints one cell of one project
PaintCell ==
    /\ pc = "called"
    /\ fn = "cell"
    /\ result' = RenderCell(args.site, args.project)
    /\ pc' = "returned"
    /\ UNCHANGED <<fn, args, prs, step, posted>>

\* a page builder fills the table of one slide
PaintTable ==
    /\ pc = "called"
    /\ fn = "table"
    /\ result' = build_table(args.page, args.projects_on_slide)
    /\ pc' = "returned"
    /\ UNCHANGED <<fn, args, prs, step, posted>>

\* create_complete_presentation, statement by statement: step counts the
\* statements done (the cover, then a divider and a builder per section)
CreateCoverSlide ==
    /\ Assembling /\ step = 0
    /\ prs' = create_cover_slide(prs)
    /\ step' = 1
    /\ UNCHANGED <<fn, args, result, pc, posted>>

CreateSectionDivider ==
    /\ Assembling
    /\ \E k \in 1..Len(section_titles) :
          /\ step = 2 * k - 1
          /\ prs' = create_section_divider(prs, section_titles[k])
    /\ step' = step + 1
    /\ UNCHANGED <<fn, args, result, pc, posted>>

\* section 1
\* what a section builder leaves: its slides in the deck, and either the
\* next step or the exception it raised
AddSlides(built) ==
    /\ prs' = prs \o built.slides
    /\ IF built.exc = "none"
       THEN step' = step + 1 /\ pc' = pc /\ result' = result
       ELSE step' = step /\ pc' = "raised" /\ result' = Raised(built.exc)

CreateSlide6DeliveryReview ==
    /\ Assembling /\ step = 2
    /\ AddSlides(create_slide_6_delivery_review(deck_projects))
    /\ UNCHANGED <<fn, args, posted>>

\* section 2
CreateSlide1ProjectHealth ==
    /\ Assembling /\ step = 4
    /\ AddSlides(create_slide_1_project_health(deck_projects))
    /\ UNCHANGED <<fn, args, posted>>

\* section 3
CreateSlide5SalesforceQuality ==
    /\ Assembling /\ step = 6
    /\ AddSlides(create_slide_5_salesforce_quality(deck_projects))
    /\ UNCHANGED <<fn, args, posted>>

\* section 4
CreateSlide2TicketQuality ==
    /\ Assembling /\ step = 8
    /\ AddSlides(create_slide_2_ticket_quality(deck_projects))
    /\ UNCHANGED <<fn, args, posted>>

\* section 5
CreateSlide3Enhancements ==
    /\ Assembling /\ step = 10
    /\ AddSlides(create_slide_3_enhancements(deck_projects))
    /\ UNCHANGED <<fn, args, posted>>

\* section 6
CreateSlide4FeedbackSummary ==
    /\ Assembling /\ step = 12
    /\ AddSlides(create_slide_4_feedback_summary(deck_projects))
    /\ UNCHANGED <<fn, args, posted>>

\* prs.save and the return: the saved deck holds the slides of prs
SavePresentation ==
    /\ Assembling /\ step = 13
    /\ result' = Returned(prs)
    /\ pc' = IF fn = "main" THEN "delivering" ELSE "returned"
    /\ UNCHANGED <<fn, args, prs, step, posted>>

\* main, statement by statement
MainParse ==
    /\ fn = "main" /\ pc = "called"
    /\ IF main_parse(args).exc = "none"
       THEN pc' = "preview" /\ result' = result
       ELSE pc' = "raised" /\ result' = Raised(main_parse(args).exc)
    /\ UNCHANGED <<fn, args, prs, step, posted>>

MainPreview ==
    /\ fn = "main" /\ pc = "preview"
    /\ IF main_preview(incoming_data).exc = "none"
       THEN pc' = "assembling" /\ result' = result
       ELSE pc' = "raised" /\ result' = Raised(main_preview(incoming_data).exc)
    /\ UNCHANGED <<fn, args, prs, step, posted>>

\* the request to Power Automate succeeds or raises RequestException
MainDeliver ==
    /\ fn = "main" /\ pc = "delivering"
    /\ \E outcome \in {"ok", "RequestException"} :
          /\ posted' = main_deliver(posted, prs, outcome)
          /\ result' = Returned([status |-> IF outcome = "ok" THEN "Success"
                                                            ELSE "Partial Success",
                                 message |-> IF outcome = "ok" THEN "Sent"
                                                             ELSE "Not sent"])
    /\ pc' = "returned"
    /\ UNCHANGED <<fn, args, prs, step>>

\* "except (json.JSONDecodeError, ValueError, SyntaxError)" and
\* "except Exception"
MainExcept ==
    /\ fn = "main" /\ pc = "raised"
    /\ result' = Returned(main_except(result.exc))
    /\ pc' = "returned"
    /\ UNCHANGED <<fn, args, prs, step, posted>>

Next ==
    \/ CallPaginate
    \/ CallColumnWidths
    \/ CallStatusColor
    \/ CallQualityStatusColor
    \/ CallFeedbackColor
    \/ PaintCell
    \/ PaintTable
    \/ CreateCoverSlide
    \/ CreateSectionDivider
    \/ CreateSlide6DeliveryReview
    \/ CreateSlide1ProjectHealth
    \/ CreateSlide5SalesforceQuality
    \/ CreateSlide2TicketQuality
    \/ CreateSlide3Enhancements
    \/ CreateSlide4FeedbackSummary
    \/ SavePresentation
    \/ MainParse
    \/ MainPreview
    \/ MainDeliver
    \/ MainExcept

Spec == Init /\ [][Next]_vars

\* the program is one sequential thread: a statement that can run does run,
\* and the request to Power Automate gives up after its 30 s timeout
MainInit == Init /\ fn = "main"

MainNext ==
    \/ MainParse
    \/ MainPreview
    \/ CreateCoverSlide
    \/ CreateSectionDivider
    \/ CreateSlide6DeliveryReview
    \/ CreateSlide1ProjectHealth
    \/ CreateSlide5SalesforceQuality
    \/ CreateSlide2TicketQuality
    \/ CreateSlide3Enhancements
    \/ CreateSlide4FeedbackSummary
    \/ SavePresentation
    \/ MainDeliver
    \/ MainExcept

\* main is one sequential thread: a statement that can run does run, and
\* the request to Power Automate gives up after its 30 s timeout.  The weak
\* fairness of the six section builders is spelled out with their enabling
\* condition: a builder is due at the even steps of the assembly.
LiveSpec ==
    /\ MainInit /\ [][MainNext]_vars
    /\ WF_vars(MainParse) /\ WF_vars(MainPreview)
    /\ WF_vars(CreateCoverSlide) /\ WF_vars(CreateSectionDivider)
    /\ WF_vars(SavePresentation)
    /\ WF_vars(MainDeliver) /\ WF_vars(MainExcept)
    /\ \/ []<>~(Assembling /\ step \in {2, 4, 6, 8, 10, 12})
       \/ []<><<\/ CreateSlide6DeliveryReview
               \/ CreateSlide1ProjectHealth
               \/ CreateSlide5SalesforceQuality
               \/ CreateSlide2TicketQuality
               \/ CreateSlide3Enhancements
               \/ CreateSlide4FeedbackSummary>>_vars

(***************************************************************************)
(* Properties of the paginator.                                            *)
(***************************************************************************)
PaginateReturned == pc = "returned" /\ fn = "calculate_projects_per_slide"
WithDefaults == args.min = DefaultMin /\ args.max = DefaultMax
InRange(q, lo, hi) == \A i \in 1..Len(q) : lo <= q[i] /\ q[i] <= hi

\* C1: with the default bounds 3 and 5, for every total >= 0 the group
\* sizes returned by calculate_projects_per_slide sum to exactly total.
C1_SumIsTotal ==
    (PaginateReturned /\ WithDefaults /\ args.total >= 0)
        => SumSeq(result.val) = args.total

\* C1 witness: a default-bounds call with several groups of unequal size
\* has returned.
C1_Witness ==
    /\ PaginateReturned /\ WithDefaults /\ args.total = 11
    /\ Len(result.val) = 3

\* C2: with the default bounds, for every total > 5 every group size lies
\* in [3, 5]; over totals >= 0 a result holds a group smaller than 3 only
\* when it is the single group of a total in {1, 2}.
C2_DefaultSizesInRange ==
    (PaginateReturned /\ WithDefaults /\ args.total >= 0)
        => /\ args.total > DefaultMax
                => InRange(result.val, DefaultMin, DefaultMax)
           /\ (\E i \in 1..Len(result.val) : result.val[i] < DefaultMin)
                => (args.total \in {1, 2} /\ result.val = <<args.total>>)

\* C2 witness: a default-bounds call with total > 5 returned a split with
\* a group of the largest size allowed.
C2_Witness ==
    /\ PaginateReturned /\ WithDefaults /\ args.total = 9
    /\ result.val = <<5, 4>>

\* C3 (as claimed): for every 1 <= min <= max and every total > max, every
\* group size g satisfies min <= g <= max.
C3_AllSizesInRange ==
    (PaginateReturned /\ 1 <= args.min /\ args.min <= args.max
        /\ args.total > args.max)
        => InRange(result.val, args.min, args.max)

\* the split the paginator is specified to return
ReferenceSplit(total) ==
    IF total = 0 THEN <<>>
    ELSE IF total <= DefaultMax THEN <<total>>
    ELSE LET n == IF total % DefaultMax = 0 THEN total \div DefaultMax
                                            ELSE total \div DefaultMax + 1
         IN  [i \in 1..n |-> IF i <= total % n THEN total \div n + 1
                                               ELSE total \div n]

\* C4: with the default bounds and total >= 0 the result is the reference
\* split: [] for 0, [total] up to 5, otherwise ceil(total/5) groups, the
\* first (total mod n) of size floor(total/n)+1 and the rest floor(total/n);
\* the sizes are non-increasing and differ by at most 1.
C4_ReferenceSplit ==
    (PaginateReturned /\ WithDefaults /\ args.total >= 0)
        => /\ result.val = ReferenceSplit(args.total)
           /\ \A i \in 1..(Len(result.val) - 1) : result.val[i] >= result.val[i + 1]
           /\ \A i, j \in 1..Len(result.val) : result.val[i] - result.val[j] <= 1
           /\ args.total = 6 => result.val = <<3, 3>>
           /\ args.total = 11 => result.val = <<4, 4, 3>>
           /\ args.total = 12 => result.val = <<4, 4, 4>>

\* C4 witness: a default-bounds call returned a split whose first groups
\* are the larger ones.
C4_Witness ==
    /\ PaginateReturned /\ WithDefaults /\ args.total = 13
    /\ result.val = <<5, 4, 4>>

\* C5 (as claimed): whenever min_per_slide > max_per_slide or total < 0 the
\* call reports an error and returns no group sizes.
C5_InvalidInputRejected ==
    (PaginateReturned /\ (args.min > args.max \/ args.total < 0))
        => (result.exc # "none" /\ result.val = <<>>)

(***************************************************************************)
(* Properties of the column allocator.                                     *)
(***************************************************************************)
WidthsReturned == pc = "returned" /\ fn = "calculate_column_widths"

\* C6: for k >= 1 and w > f >= 0 the call returns (f, (w - f)/k); where k
\* divides (w - f) the dynamic width is that whole quotient and
\* f + k * dynamic_width = w.
C6_WidthPlan ==
    (WidthsReturned /\ args.k >= 1 /\ args.w > args.f /\ args.f >= 0)
        => /\ result.exc = "none"
           /\ result.val.fixed = args.f
           /\ LET num == result.val.project[1]
                  den == result.val.project[2]
              IN  /\ den > 0
                  /\ num * args.k = (args.w - args.f) * den
                  /\ args.f * den + args.k * num = args.w * den
                  /\ (args.w - args.f) % args.k = 0
                        => /\ num % den = 0
                           /\ num \div den = (args.w - args.f) \div args.k
                           /\ args.f + args.k * (num \div den) = args.w

\* C6 witness: a plan was returned for several columns whose count divides
\* the remaining width.
C6_Witness ==
    /\ WidthsReturned /\ args.k = 3 /\ args.w = 11 /\ args.f = 2
    /\ result.exc = "none"

\* C7: with zero dynamic columns the call fails with an error and returns
\* no width plan.
C7_ZeroColumnsRaises ==
    (WidthsReturned /\ args.k = 0)
        => (result.exc = "ZeroDivisionError" /\ result.val = <<>>)

\* C7 witness: a call with zero dynamic columns has ended.
C7_Witness ==
    /\ WidthsReturned /\ args.k = 0 /\ args.w > args.f
    /\ result.exc # "none"

(***************************************************************************)
(* Properties of the classifiers.  The letter-case and padding conditions  *)
(* of the claims are stated on the characters of the value itself.         *)
(***************************************************************************)
StatusColorReturned == pc = "returned" /\ fn = "get_status_color"
QualityColorReturned == pc = "returned" /\ fn = "get_quality_status_color"

\* a and b are the same character up to letter case
SameLetter(a, b) ==
    \/ a = b
    \/ \E i \in 1..Len(UpperChars) : {a, b} = {UpperChars[i], LowerChars[i]}

\* s equals word up to letter case
MatchesAnyCase(s, word) ==
    Len(s) = Len(word) /\ \A i \in 1..Len(s) : SameLetter(s[i], word[i])

\* s contains word in some letter case
ContainsAnyCase(s, word) ==
    \E i \in 0..(Len(s) - Len(word)) :
        MatchesAnyCase(SubSeq(s, i + 1, i + Len(word)), word)

\* s is word in some letter case with only whitespace around it
IsToken(s, word) ==
    \E i \in 1..(Len(s) + 1) :
        /\ i + Len(word) - 1 <= Len(s)
        /\ MatchesAnyCase(SubSeq(s, i, i + Len(word) - 1), word)
        /\ \A j \in 1..Len(s) :
              (j < i \/ j > i + Len(word) - 1) => s[j] \in Whitespace

\* C8: get_status_color is case-insensitive and substring-based: every
\* value containing 'green' in any letter case yields the green colour,
\* and the empty string and None yield a neutral gray colour.
C8_GreenAnyCase ==
    StatusColorReturned
        => /\ (args.tag = "str" /\ ContainsAnyCase(args.s, kw_green))
                => result.val = STATUS_GREEN
           /\ (args = PyNone \/ args = Str(<<>>))
                => result.val = GRAY_EMPTY

\* C8 witness: the classifier returned for an upper-case 'GREEN' followed
\* by free text.
C8_Witness ==
    /\ StatusColorReturned
    /\ args = Str(upper(kw_green) \o sfx_minor_delay)
    /\ result.val = STATUS_GREEN

\* C9 (as claimed): get_status_color returns the red colour only for
\* values that contain the status word 'red'.
C9_RedOnlyForRed ==
    (StatusColorReturned /\ result.val = STATUS_RED)
        => (args.tag = "str" /\ ContainsAnyCase(args.s, kw_red))

\* C10: under get_quality_status_color, after trimming and case-folding,
\* 'Yes' yields green, every token of {PARTIAL, PENDING, IN PROGRESS,
\* SCHEDULED, ONGOING} yields orange, and 'Not Applicable', 'N/A', 'NA',
\* 'No', 'None' and the empty value yield gray.
C10_CompletionTokens ==
    QualityColorReturned
        => /\ (args.tag = "str" /\ IsToken(args.s, TOK_YES))
                => result.val = QUALITY_GREEN
           /\ (args.tag = "str" /\ \E t \in WARNING_TOKENS : IsToken(args.s, t))
                => result.val = QUALITY_ORANGE
           /\ (args.tag = "str" /\ \E t \in NA_TOKENS : IsToken(args.s, t))
                => result.val = QUALITY_GRAY
           /\ (args = PyNone \/ \A j \in 1..Len(args.s) : args.s[j] \in Whitespace)
                => result.val = QUALITY_GRAY

\* C10 witness: the classifier returned for a padded, mixed-case warning
\* token.
C10_Witness ==
    /\ QualityColorReturned
    /\ args = Str(<<" ">> \o Capitalized(lower(TOK_IN_PROGRESS)) \o <<" ">>)
    /\ result.val = QUALITY_ORANGE

\* the token GREEN, which the claimed positive set holds
word_GREEN == <<"G", "R", "E", "E", "N">>

\* C11 (as claimed): under get_quality_status_color a value that equals,
\* after trimming and up to letter case, a token of {YES, GREEN, COMPLETE,
\* COMPLETED, DONE, UP TO DATE, Y} yields green.
C11_PositiveTokens ==
    (QualityColorReturned /\ args.tag = "str"
        /\ \E t \in POSITIVE_TOKENS \cup {word_GREEN} : IsToken(args.s, t))
        => result.val = QUALITY_GREEN

\* no exact token of the three lists matches s
NoExactToken(s) ==
    ~ \E t \in POSITIVE_TOKENS \cup WARNING_TOKENS \cup NA_TOKENS : IsToken(s, t)

HasPositiveKeyword(s) ==
    \E k \in {kw_yes, kw_complete, kw_available} : ContainsAnyCase(s, k)
HasWarningKeyword(s) ==
    \E k \in {kw_pending, kw_partial, kw_missing} : ContainsAnyCase(s, k)
HasNaKeyword(s) ==
    \E k \in {kw_not_applicable, kw_n_a} : ContainsAnyCase(s, k)

\* C12 (as claimed): when no exact token matches, a value containing both a
\* positive and a warning keyword yields green, and one containing both a
\* warning keyword and 'not applicable'/'n/a' yields orange.
C12_PositiveFirst ==
    (QualityColorReturned /\ args.tag = "str" /\ args.s # <<>>
        /\ NoExactToken(args.s))
        => /\ (HasPositiveKeyword(args.s) /\ HasWarningKeyword(args.s))
                => result.val = QUALITY_GREEN
           /\ (HasWarningKeyword(args.s) /\ HasNaKeyword(args.s))
                => result.val = QUALITY_ORANGE

\* C12 (amended): when no exact token matches, the substring fallback tests
\* not-applicable, then warning, then positive: a value containing
\* 'not applicable'/'n/a' yields gray, otherwise one containing a warning
\* keyword yields orange even beside a positive keyword, otherwise one
\* containing a positive keyword yields green.
C12_NotApplicableFirst ==
    (QualityColorReturned /\ args.tag = "str" /\ args.s # <<>>
        /\ NoExactToken(args.s))
        => /\ HasNaKeyword(args.s) => result.val = QUALITY_GRAY
           /\ (HasWarningKeyword(args.s) /\ ~HasNaKeyword(args.s))
                => result.val = QUALITY_ORANGE
           /\ (HasPositiveKeyword(args.s) /\ ~HasWarningKeyword(args.s)
                    /\ ~HasNaKeyword(args.s))
                => result.val = QUALITY_GREEN

\* C12 witness: the classifier returned for a value holding a positive and
\* a warning keyword.
C12_Witness ==
    /\ QualityColorReturned
    /\ args = Str(kw_yes \o <<",", " ">> \o kw_pending)
    /\ result.val = QUALITY_ORANGE

(***************************************************************************)
(* Properties of the feedback classifier.                                  *)
(***************************************************************************)
FeedbackColorReturned == pc = "returned" /\ fn = "get_feedback_color"

HasLevelKeyword(s, ks) == \E k \in ks : ContainsAnyCase(s, k)
PositiveLevels == {lv_high, lv_positive, lv_good}
NegativeLevels == {lv_low, lv_negative, lv_poor}
WarningLevels == {lv_medium, lv_neutral}

\* C14 (as claimed): for every non-empty satisfaction level (one holding a
\* character that is not whitespace) the returned colour is the same for
\* every feedback text.
C14_TextIgnoredIfLevelGiven ==
    (FeedbackColorReturned /\ ~Falsy(args.sat)
        /\ \E i \in 1..Len(args.sat.s) : args.sat.s[i] \notin Whitespace)
        => \A other \in FeedbackValues :
              get_feedback_color(args.sat, other) = result.val

\* C14 (amended): for every satisfaction level that contains a level
\* keyword the colour is decided by the level alone (high/positive/good
\* green, else low/negative/poor light red, else medium/neutral light
\* yellow) and is the same for every feedback text; the text is consulted
\* when the level is empty or holds no level keyword.
C14_TextIgnoredIfLevelKnown ==
    (FeedbackColorReturned /\ args.sat.tag = "str"
        /\ HasLevelKeyword(args.sat.s, PositiveLevels \cup NegativeLevels
                                           \cup WarningLevels))
        => /\ result.val =
                IF HasLevelKeyword(args.sat.s, PositiveLevels) THEN FEEDBACK_GREEN
                ELSE IF HasLevelKeyword(args.sat.s, NegativeLevels)
                     THEN FEEDBACK_LIGHT_RED
                ELSE FEEDBACK_LIGHT_YELLOW
           /\ \A other \in FeedbackValues :
                 get_feedback_color(args.sat, other) = result.val

\* C14 witness: the classifier returned the level's colour for a low
\* satisfaction level beside a feedback text with a positive keyword.
C14_Witness ==
    /\ FeedbackColorReturned
    /\ args.sat = Str(<<"L", "O", "W">>)
    /\ args.text = Str(<<"E", "x", "c", "e", "l", "l", "e", "n", "t">>)
    /\ result.val = FEEDBACK_LIGHT_RED

\* C15 (as claimed): with an empty satisfaction level a feedback text
\* containing a positive keyword gets the colour of satisfaction 'high', a
\* text containing a negative keyword the colour of satisfaction 'low', and
\* every other text gray.
C15_TextSentiment ==
    (FeedbackColorReturned /\ Falsy(args.sat) /\ args.text.tag = "str")
        => LET positive == \E i \in 1..Len(positive_keywords) :
                               ContainsAnyCase(args.text.s, positive_keywords[i])
               negative == \E i \in 1..Len(negative_keywords) :
                               ContainsAnyCase(args.text.s, negative_keywords[i])
           IN  /\ negative => result.val = get_feedback_color(Str(lv_low), PyNone)
               /\ (positive /\ ~negative)
                     => result.val = get_feedback_color(Str(lv_high), PyNone)
               /\ (~positive /\ ~negative) => result.val = FEEDBACK_GRAY

(***************************************************************************)
(* Properties of the table cells.                                          *)
(***************************************************************************)
CellPainted == pc = "returned" /\ fn = "cell"

\* the gray colours the pages use for a neutral or unknown value
NeutralColors == {GRAY_EMPTY, LIGHT_GRAY, QUALITY_GRAY, CELL_DEFAULT_GRAY}

\* the cells coloured by a status classifier
ClassifiedKinds ==
    {"health_status", "ticket_value", "enhancement_value", "feedback",
     "sf_status", "sf_nexgen", "sf_sme", "sf_concourse", "sf_rca", "sf_combined",
     "delivery_indicator"}

\* the cells of the yes/no completion classifier that show one status field
CompletionKinds ==
    {"ticket_value", "enhancement_value", "sf_status", "sf_nexgen", "sf_sme",
     "sf_concourse", "sf_rca"}

\* the colour that carries the category: the dot's colour on Delivery
\* Review, the background elsewhere
CategoryColor(site, cell) ==
    IF site.kind = "delivery_indicator" THEN cell.font ELSE cell.bg

word_Not_Applicable ==
    <<"N", "o", "t", " ", "A", "p", "p", "l", "i", "c", "a", "b", "l", "e">>

\* C13 (as claimed): on the Ticket Quality, Quality Checks and Salesforce
\* Quality pages a cell whose value is 'No' gets the neutral gray category,
\* the same category as 'Not Applicable', and never a red or pink colour.
C13_NoIsNeutral ==
    (CellPainted /\ args.site.kind \in CompletionKinds
        /\ DOMAIN args.project = {args.site.key}
        /\ args.project[args.site.key].tag = "str"
        /\ IsToken(args.project[args.site.key].s, TOK_NO))
        => /\ result.bg \in NeutralColors
           /\ RenderCell(args.site,
                         [k \in {args.site.key} |-> Str(word_Not_Applicable)]).bg
                 \in NeutralColors

\* C16 (as claimed): a record that lacks the source key of a classified
\* status cell is classified neutral (a gray colour).
C16_MissingKeyNeutral ==
    (CellPainted /\ args.site.kind \in ClassifiedKinds
        /\ args.site.key \notin DOMAIN args.project)
        => (result.exc = "none"
            /\ CategoryColor(args.site, result) \in NeutralColors)

\* C16 (amended): a record that lacks every key a classified status cell
\* reads (its source key and its companion satisfaction, details or second
\* status key) is classified neutral (a gray colour).
C16_AllKeysMissingNeutral ==
    (CellPainted /\ args.site.kind \in ClassifiedKinds
        /\ SiteKeys(args.site) \cap DOMAIN args.project = {})
        => (result.exc = "none"
            /\ CategoryColor(args.site, result) \in NeutralColors)

\* C16 witness: a Project Health status cell was painted light gray for a
\* record without the status field.
C16_Witness ==
    /\ CellPainted /\ args.site.kind = "health_status"
    /\ args.site.key = "Overall Status"
    /\ DOMAIN args.project = {}
    /\ result.bg = LIGHT_GRAY

\* the cells whose text is copied from a record field
FieldTextKinds ==
    {"text", "header", "health_status", "health_upsell", "ticket_value",
     "enhancement_value", "feedback", "feedback_upsell", "sf_status", "sf_nexgen",
     "sf_sme", "sf_concourse", "sf_rca", "delivery_reason"}

\* C17 (as claimed): when the record lacks the key of a cell whose text
\* comes from a record field, the displayed text is the literal 'N/A'.
C17_MissingKeyShowsNA ==
    (CellPainted /\ args.site.kind \in FieldTextKinds
        /\ SiteKeys(args.site) \cap DOMAIN args.project = {})
        => result.text = <<"N", "/", "A">>

\* C17 (amended): when the record lacks every key the cell reads, the
\* displayed text is 'N/A', except that the project-name header cells of
\* Ticket Quality, Quality Checks and Delivery Review show 'Project <n>'
\* (n the 1-based position of the project on the page), the up-sell cells
\* of Project Health and Feedback Summary show 'None' and the reason cell
\* of Delivery Review shows 'NA'.
C17_MissingKeyDefaults ==
    (CellPainted /\ args.site.kind \in FieldTextKinds
        /\ SiteKeys(args.site) \cap DOMAIN args.project = {})
        => result.text =
             CASE args.site.kind = "header"
                    -> <<"P", "r", "o", "j", "e", "c", "t", " ">>
                       \o <<Digits[args.site.idx + 2]>>
               [] args.site.kind \in {"health_upsell", "feedback_upsell"}
                    -> <<"N", "o", "n", "e">>
               [] args.site.kind = "delivery_reason" -> <<"N", "A">>
               [] OTHER -> <<"N", "/", "A">>

\* C17 witness: the header cell of the third project of a Ticket Quality
\* page was painted for a record without a project name.
C17_Witness ==
    /\ CellPainted /\ args.site.kind = "header"
    /\ args.site.page = "Ticket Quality" /\ args.site.idx = 2
    /\ DOMAIN args.project = {}
    /\ result.text = <<"P", "r", "o", "j", "e", "c", "t", " ", "3">>

(***************************************************************************)
(* Properties of the deck.                                                 *)
(***************************************************************************)
DeckCall == fn = "create_complete_presentation"
DeckReturned == DeckCall /\ pc = "returned"

\* the paginator's answer for the whole input
Distribution ==
    calculate_projects_per_slide(Len(args.projects_data), DefaultMin, DefaultMax)

\* the six sections in deck order: the divider's title, the title of the
\* section's content pages
DividerTitles ==
    <<"Delivery Review Summary", "Project Health Status",
      "Salesforce Project Quality", "Ticket Quality Checks - Incidents",
      "Quality Checks - Enhancements/Bugs", "Feedback Summary">>
ContentTitles ==
    <<"Delivery Review Summary", "Project Health Status",
      "Salesforce Project Quality", "Ticket Quality Checks (Incidents)",
      "Quality Checks (Enhancements/Bugs)", "Feedback Summary">>

RECURSIVE SectionsOutline(_, _)
\* sections k..6, each a divider followed by n content pages
SectionsOutline(k, n) ==
    IF k > Len(DividerTitles) THEN <<>>
    ELSE <<<<"divider", DividerTitles[k]>>>>
         \o [i \in 1..n |-> <<"content", ContentTitles[k]>>]
         \o SectionsOutline(k + 1, n)

ExpectedOutline(n) == <<<<"cover", "">>>> \o SectionsOutline(1, n)

Outline(slides) == [i \in 1..Len(slides) |-> <<slides[i].kind, slides[i].title>>]

IsPrefix(a, b) == Len(a) <= Len(b) /\ a = SubSeq(b, 1, Len(a))

\* C18: create_complete_presentation appends the Cover, then for each of
\* the six sections, in a fixed order, one divider immediately followed by
\* len(calculate_projects_per_slide(N)) content pages of that section: at
\* every moment the deck is a prefix of that sequence (no content page
\* precedes its divider), and the returned deck is the whole sequence, of
\* 7 + 6 * len(calculate_projects_per_slide(N)) pages.
C18_DeckSequence ==
    DeckCall =>
        /\ IsPrefix(Outline(prs), ExpectedOutline(Len(Distribution)))
        /\ pc = "returned" =>
              /\ Outline(prs) = ExpectedOutline(Len(Distribution))
              /\ Len(prs) = 7 + 6 * Len(Distribution)
              /\ result = Returned(prs)

\* C18 witness: a deck of 11 records was returned with three content pages
\* in every section, 25 pages.
C18_Witness ==
    /\ DeckReturned
    /\ Len(args.projects_data) = 11
    /\ Len(Distribution) = 3
    /\ Len(prs) = 25
    /\ prs[2].kind = "divider" /\ prs[3].kind = "content"

\* the content pages of section k, in deck order
SectionPages(k) ==
    LET at == {i \in 1..Len(prs) :
                  prs[i].kind = "content" /\ prs[i].title = ContentTitles[k]}
        nth(j) == CHOOSE i \in at : Cardinality({q \in at : q < i}) = j - 1
    IN  [j \in 1..Cardinality(at) |-> prs[nth(j)]]

RECURSIVE Records(_)
\* the records of a sequence of pages, page after page
Records(pages) ==
    IF pages = <<>> THEN <<>> ELSE Head(pages).projects \o Records(Tail(pages))

\* C19: in every section whose builder has finished, the records of the
\* section's content pages, concatenated in page order, are exactly the
\* input list (each record once, in input order, duplicates kept), and
\* page i holds as many records as the i-th size of
\* calculate_projects_per_slide.
C19_GroupsPartitionInput ==
    DeckCall =>
        \A k \in 1..Len(ContentTitles) :
            step > 2 * k =>
                /\ Records(SectionPages(k)) = args.projects_data
                /\ Len(SectionPages(k)) = Len(Distribution)
                /\ \A i \in 1..Len(Distribution) :
                       Len(SectionPages(k)[i].projects) = Distribution[i]

\* C19 witness: a returned deck of 12 records, among them equal ones, whose
\* Feedback Summary pages hold 4, 4 and 4 records.
C19_Witness ==
    /\ DeckReturned
    /\ Len(args.projects_data) = 12
    /\ args.projects_data[1] = args.projects_data[5]
    /\ Distribution = <<4, 4, 4>>
    /\ Len(SectionPages(6)) = 3
    /\ SectionPages(6)[2].projects = SubSeq(args.projects_data, 5, 8)

\* the run stopped while the table of the deck's last page was painted
RaisedOnLastPage == pc = "raised"

\* C20: every Project Health page has 1 header row plus one data row per
\* record of its group, and the Overall Status cell of data row i has the
\* colour get_status_color gives record i's own Overall Status; for the
\* input (Alpha 'Green', Beta 'Red') there is one such page, with 3 rows,
\* row 1 green (Positive) and row 2 red (Negative).
C20_ProjectHealthRows ==
    DeckCall =>
        /\ \A p \in 1..Len(prs) :
              (prs[p].kind = "content" /\ prs[p].title = "Project Health Status")
                => /\ prs[p].rows = 1 + Len(prs[p].projects)
                   /\ prs[p].cols = 12
                   /\ (Len(prs[p].cells) = Len(prs[p].projects)
                       \/ (p = Len(prs) /\ RaisedOnLastPage))
                   /\ \A i \in 1..Len(prs[p].cells) :
                         /\ prs[p].cells[i]["Overall Status"].bg
                              = get_status_color(Get(prs[p].projects[i],
                                                     "Overall Status", Str(lit_N_A)))
                         /\ prs[p].cells[i]["Overall Status"].text
                              = Display(Get(prs[p].projects[i],
                                            "Overall Status", Str(lit_N_A)))
        /\ (args.projects_data = <<Alpha, Beta>> /\ step > 4)
              => /\ Len(SectionPages(2)) = 1
                 /\ SectionPages(2)[1].rows = 3
                 /\ SectionPages(2)[1].cells[1]["Overall Status"].bg = STATUS_GREEN
                 /\ SectionPages(2)[1].cells[2]["Overall Status"].bg = STATUS_RED

\* C20 witness: the Project Health builder has finished for the input
\* (Alpha 'Green', Beta 'Red').
C20_Witness ==
    /\ DeckCall /\ step > 4
    /\ args.projects_data = <<Alpha, Beta>>
    /\ Alpha["Overall Status"] = Str(<<"G", "r", "e", "e", "n">>)
    /\ Beta["Overall Status"] = Str(<<"R", "e", "d">>)
    /\ SectionPages(2)[1].projects = <<Alpha, Beta>>

(***************************************************************************)
(* Properties of the Salesforce Quality cells.                             *)
(***************************************************************************)
OverridableKinds == {"sf_nexgen", "sf_sme", "sf_rca"}

\* the companion details of the painted cell's record, '' when missing
DetailsGiven ==
    IF args.site.aux \in DOMAIN args.project
    THEN args.project[args.site.aux] ELSE Str(<<>>)

\* the status word of the painted cell's record, as displayed
StatusWord ==
    IF args.site.key \in DOMAIN args.project
          /\ args.project[args.site.key].tag = "str"
          /\ args.project[args.site.key].s # <<>>
    THEN args.project[args.site.key].s
    ELSE <<"N", "/", "A">>

\* the details hold more than whitespace and are not 'N/A' in any case
MeaningfulDetails(d) ==
    /\ d.tag = "str"
    /\ \E i \in 1..Len(d.s) : d.s[i] \notin Whitespace
    /\ ~IsToken(d.s, <<"N", "/", "A">>)

\* C23 (as claimed): in the NexGen, SME Reviews and RCA columns, whenever
\* the companion details field is non-empty the cell shows the details
\* text instead of the status word.
C23_DetailsShownIfNonEmpty ==
    (CellPainted /\ args.site.kind \in OverridableKinds
        /\ DetailsGiven.tag = "str" /\ DetailsGiven.s # <<>>)
        => result.text = DetailsGiven.s

\* C23 (amended): in the NexGen, SME Reviews and RCA columns the cell shows
\* the details text when the details hold more than whitespace and are not
\* 'N/A' (trimmed, any letter case); otherwise it shows the status word.
C23_DetailsShownIfMeaningful ==
    (CellPainted /\ args.site.kind \in OverridableKinds)
        => result.text = IF MeaningfulDetails(DetailsGiven)
                         THEN DetailsGiven.s ELSE StatusWord

\* C23 witness: an RCA cell whose record has both a status word and
\* details was painted with the details.
C23_Witness ==
    /\ CellPainted /\ args.site.kind = "sf_rca"
    /\ DOMAIN args.project = {args.site.key, args.site.aux}
    /\ args.project[args.site.key] = Str(<<"Y", "e", "s">>)
    /\ MeaningfulDetails(DetailsGiven)
    /\ result.text = DetailsGiven.s

\* the field of the painted cell's record is YES, trimmed, in any case
FieldIsYes(key) ==
    /\ key \in DOMAIN args.project
    /\ args.project[key].tag = "str"
    /\ IsToken(args.project[key].s, <<"Y", "E", "S">>)

\* C24: the combined Capacity/Vacation cell shows 'Yes' iff both source
\* fields are YES (trimmed, any letter case), 'Partial' iff exactly one
\* is, 'N/A' otherwise, and its colour is the one
\* get_quality_status_color gives that derived text.
C24_CombinedDerivedFirst ==
    (CellPainted /\ args.site.kind = "sf_combined")
        => LET capacity == FieldIsYes(args.site.key)
               vacation == FieldIsYes(args.site.aux)
           IN  /\ result.exc = "none"
               /\ result.text = (IF capacity /\ vacation THEN <<"Y", "e", "s">>
                                 ELSE IF capacity \/ vacation
                                 THEN <<"P", "a", "r", "t", "i", "a", "l">>
                                 ELSE <<"N", "/", "A">>)
               /\ result.bg = get_quality_status_color(Str(result.text))

\* C24 witness: a combined cell was painted 'Partial', orange, for a record
\* with capacity planning ' yes ' and vacation tracking 'No'.
C24_Witness ==
    /\ CellPainted /\ args.site.kind = "sf_combined"
    /\ DOMAIN args.project = {args.site.key, args.site.aux}
    /\ args.project[args.site.key] = Str(<<" ", "y", "e", "s", " ">>)
    /\ args.project[args.site.aux] = Str(<<"N", "o">>)
    /\ result.text = <<"P", "a", "r", "t", "i", "a", "l">>
    /\ result.bg = <<255, 192, 0>>

(***************************************************************************)
(* Properties relating the two sentiment classifiers.                      *)
(***************************************************************************)
\* the category a colour of either palette stands for
SentimentCategory(color) ==
    CASE color \in {STATUS_GREEN, GLYPH_GREEN} -> "Positive"
      [] color \in {STATUS_AMBER, GLYPH_AMBER} -> "Warning"
      [] color \in {STATUS_RED, GLYPH_RED} -> "Negative"
      [] OTHER -> "NeutralOrUnknown"

\* C25: for every status string, the category of the Delivery Review
\* indicator glyph equals the category get_status_color gives the same
\* string for the Project Health cell background.
C25_SharedCategories ==
    (CellPainted /\ args.site.kind = "delivery_indicator"
        /\ args.site.key \in DOMAIN args.project
        /\ args.project[args.site.key].tag = "str")
        => /\ result.exc = "none"
           /\ SentimentCategory(result.font)
                = SentimentCategory(get_status_color(args.project[args.site.key]))

(***************************************************************************)
(* Properties of the paginator's recomputation branch.                     *)
(***************************************************************************)
\* calculate_projects_per_slide with the 'base_count < min_per_slide'
\* branch removed
WithoutRecomputation(total_projects, max_per_slide) ==
    IF total_projects = 0 THEN <<>>
    ELSE IF total_projects <= max_per_slide THEN <<total_projects>>
    ELSE LET num_slides == (total_projects + max_per_slide - 1) \div max_per_slide
             base_count == total_projects \div num_slides
             remainder == total_projects % num_slides
         IN  [i \in 1..num_slides |->
                 IF i <= remainder THEN base_count + 1 ELSE base_count]

StringsOrNulls(projects_data) ==
    \A i \in 1..Len(projects_data) :
        \A k \in DOMAIN projects_data[i] :
            projects_data[i][k].tag \in {"str", "None"}

\* C29: for every record list whose field values are strings or nulls,
\* each of the six content-page builders completes without raising.
C29_NullsNeverRaise ==
    (DeckCall /\ StringsOrNulls(args.projects_data))
        => (pc # "raised" /\ result.exc \in {"pending", "none"})

(***************************************************************************)
(* Properties of the column widths during deck assembly.                   *)
(***************************************************************************)
\* the titles of the pages with one column per project
ProjectColumnTitles ==
    {"Delivery Review Summary", "Ticket Quality Checks (Incidents)",
     "Quality Checks (Enhancements/Bugs)"}

\* C27: during deck assembly calculate_column_widths is never called with
\* zero project columns: every group has at least one record, on every
\* page with project columns, and no run ends in ZeroDivisionError.
C27_NoZeroColumns ==
    DeckCall =>
        /\ result.exc # "ZeroDivisionError"
        /\ \A i \in 1..Len(Distribution) : Distribution[i] >= 1
        /\ \A p \in 1..Len(prs) :
              (prs[p].kind = "content" /\ prs[p].title \in ProjectColumnTitles)
                => /\ Len(prs[p].projects) >= 1
                   /\ calculate_column_widths(Len(prs[p].projects), 1233, 250).exc
                        = "none"

\* C27 witness: a deck of one record was returned; its Delivery Review page
\* has the category column and one project column.
C27_Witness ==
    /\ DeckReturned
    /\ Len(args.projects_data) = 1
    /\ prs[3].title = "Delivery Review Summary"
    /\ Len(prs[3].projects) = 1 /\ prs[3].cols = 2

(***************************************************************************)
(* Properties of the tables.                                               *)
(***************************************************************************)
TablePainted == pc = "returned" /\ fn = "table"

\* C28: on every content page, for every group of 1..5 projects, every
\* cell write and every column-width assignment addresses a row and a
\* column of the table as declared (rows x cols), and every cell of the
\* table is written.
C28_WritesFillTheGrid ==
    TablePainted =>
        LET grid == (0..(result.rows - 1)) \X (0..(result.cols - 1))
        IN  /\ \A w \in result.writes : w \in grid
            /\ \A g \in grid : g \in result.writes
            /\ \A col \in result.widths : 0 <= col /\ col < result.cols

\* C28 witness: the Ticket Quality table of 5 projects, 14 rows by 7
\* columns, was filled up to its last cell.
C28_Witness ==
    /\ TablePainted
    /\ args.page = "Ticket Quality" /\ Len(args.projects_on_slide) = 5
    /\ result.rows = 14 /\ result.cols = 7
    /\ <<13, 6>> \in result.writes
    /\ Cardinality(result.writes) = 98

(***************************************************************************)
(* Properties of main.                                                     *)
(***************************************************************************)
MainCall == fn = "main"
MainReturned == MainCall /\ pc = "returned"

\* main was given, directly or as text, a list
ListGiven == MainCall /\ main_parse(args).exc = "none"

\* one of the list's items is not a mapping
MalformedRecord ==
    ListGiven /\ \E i \in 1..Len(incoming_data) : ~IsMapping(incoming_data[i])

\* C21: when a record of the input list is not a mapping, main rejects the
\* input before any pagination or page creation: no slide is added and no
\* section builder starts, wherever the record stands in the list.
C21_MalformedRejectedFirst == MalformedRecord => (prs = <<>> /\ step = 0)

\* the deck main assembled is the whole deck of its input
DeckProduced ==
    /\ ListGiven
    /\ step = 13
    /\ Outline(prs) =
         ExpectedOutline(Len(calculate_projects_per_slide(Len(incoming_data),
                                                          DefaultMin, DefaultMax)))

\* what became of the delivery request, "none" when none was made
Delivery == IF posted = <<>> THEN "none" ELSE posted[Len(posted)].response

\* C22: main returns 'Partial Success' exactly when the deck was fully
\* produced and the delivery request failed, 'Success' exactly when the
\* deck was produced and the delivery succeeded, and 'Error' for every
\* parsing or deck-assembly failure.
C22_StatusTellsWhatFailed ==
    MainReturned =>
        /\ result.exc = "none"
        /\ (result.val.status = "Partial Success")
              <=> (DeckProduced /\ Delivery = "RequestException")
        /\ (result.val.status = "Success") <=> (DeckProduced /\ Delivery = "ok")
        /\ ~DeckProduced => result.val.status = "Error"

C22_Witness ==
    /\ MainReturned
    /\ DeckProduced
    /\ Len(incoming_data) = MaxMainRecords
    /\ result.val.status = "Partial Success"

\* C30: in every run of main the delivery request is made at most once, and
\* only with the complete, saved deck; a run whose parsing or assembly
\* fails makes no request; and every run ends with main returning a result
\* whose status is 'Success', 'Partial Success' or 'Error', never with an
\* exception.
C30_DeliverOnceThenReturn ==
    /\ [](MainCall =>
            /\ Len(posted) <= 1
            /\ posted # <<>> => (DeckProduced /\ posted[1].fileContent = prs)
            /\ (pc = "raised" \/ ~ListGiven) => posted = <<>>
            /\ pc = "returned" =>
                  /\ result.exc = "none"
                  /\ result.val.status \in {"Success", "Partial Success", "Error"}
                  /\ result.val.status = "Error" => posted = <<>>)
    /\ (MainCall ~> MainReturned)

C30_Witness ==
    /\ MainReturned
    /\ args.tag = "str"
    /\ Len(posted) = 1
    /\ result.val.status = "Success"

====
